---------------------------- MODULE Spec2Model ----------------------------
(***************************************************************************)
(* Model of examples/fm16/fm16_system.py: the NPU node, the SW5809s VOQ    *)
(* crossbar switch and the two topology drivers FM16System (full mesh)     *)
(* and SW16System (star through the switch).                               *)
(*                                                                         *)
(* The parameter block of the source (lines 45-65) describes a 16-node     *)
(* system with a 128x128 port crossbar.  The definitions below are the     *)
(* same parameter block instantiated for a small system; the derived       *)
(* quantities are derived as in the source and the relation                *)
(* SW_XBAR_PORTS = N_NPUS * SW_PORTS_PER_NPU of the source's values is     *)
(* kept.  The three pipeline latencies keep the source's values.           *)
(***************************************************************************)
EXTENDS Integers, Sequences, FiniteSets, TLC

\* ------------------------------------------------------------------------
\* Parameters (fm16_system.py lines 45-65)
\* ------------------------------------------------------------------------
N_NPUS == 2
FM_LINKS_PER_PAIR == 1
SW_LINKS_PER_NPU == 4
SW_XBAR_LINKS == 8
SW_LINKS_PER_PORT == 2
SW_XBAR_PORTS == SW_XBAR_LINKS \div SW_LINKS_PER_PORT
SW_PORTS_PER_NPU == SW_LINKS_PER_NPU \div SW_LINKS_PER_PORT
INJECT_BATCH == 3
FIFO_DEPTH == 3
VOQ_DEPTH == 1
FM_LINK_LATENCY == 3
SW_LINK_LATENCY == 2
SW_XBAR_LATENCY == 1

\* Bounds of the exploration: steps per run, packets created per run in
\* each topology, and direct enqueue calls on a stand-alone switch.
MaxCycle == 7
MaxCycleFM == 6
MaxPktsFM == 5
MaxPktsSW == 4
MaxEnq == 3
MaxSizedEnq == 2

MaxLats == 3
MaxLat == 4
MaxBins == 3

MaxNodePkts == 4
MaxNodeCycle == 1
MaxRx == 1

FloodCycles == 1000

Nodes == 0 .. (N_NPUS - 1)
Ports == 0 .. (SW_XBAR_PORTS - 1)

\* ------------------------------------------------------------------------
\* Python helpers
\* ------------------------------------------------------------------------
\* list[i] with Python's negative indexing on a list of length n: the
\* position read, or -1 when the read raises IndexError.
PyIndex(i, n) ==
    IF i >= 0 /\ i < n THEN i
    ELSE IF i < 0 /\ i >= -n THEN i + n
    ELSE -1

\* collections.deque(maxlen=m).append(x): a full deque discards its head.
DequeAppend(q, x, m) ==
    IF Len(q) >= m THEN Append(Tail(q), x) ELSE Append(q, x)

\* ------------------------------------------------------------------------
\* Packet
\* ------------------------------------------------------------------------
Packet(s, d, q, c) == [src |-> s, dst |-> d, seq |-> q, inject_cycle |-> c]

latency(pkt, now) == now - pkt.inject_cycle

\* ------------------------------------------------------------------------
\* NPUNode
\* ------------------------------------------------------------------------
NPUNode(nid, n_ports) ==
    [id |-> nid,
     n_ports |-> n_ports,
     out_fifos |-> [p \in 0 .. (n_ports - 1) |-> <<>>],
     seq |-> 0,
     pkts_injected |-> 0,
     pkts_delivered |-> 0,
     latencies |-> <<>>]

\* The destinations the redraw loop of lines 97-99 can end with: any node
\* but the injecting one.
DstChoices(nid) == Nodes \ {nid}

\* One PRNG outcome of an injection attempt: inject is FALSE when
\* rng.random() is above HBM_INJECT_PROB (no destination is drawn then),
\* otherwise dst is the destination the redraw loop ends with.  Both
\* outcomes are kept, which covers every value of HBM_INJECT_PROB; with the
\* source's value 1.0 no attempt is skipped.
Draws(nid) ==
    {[inject |-> FALSE, dst |-> nid]}
        \cup {[inject |-> TRUE, dst |-> d] : d \in DstChoices(nid)}

\* Mutant: the admission test always passes.
FifoHasRoom_Always(q) == TRUE

\* Mutant: the admission test accepts a queue that is already full.
FifoHasRoom_Loose(q) == Len(q) <= FIFO_DEPTH

\* The admission test of inject (line 103).
FifoHasRoom(q) == Len(q) < FIFO_DEPTH

\* NPUNode.inject, one attempt per element of draws.
RECURSIVE inject(_, _, _)
inject(npu, cyc, draws) ==
    IF draws = <<>> THEN npu
    ELSE IF ~Head(draws).inject THEN inject(npu, cyc, Tail(draws))
    ELSE
        LET dst == Head(draws).dst
            pkt == Packet(npu.id, dst, npu.seq, cyc)
            port == dst % npu.n_ports
            n1 == [npu EXCEPT !.seq = @ + 1]
            n2 == IF FifoHasRoom(n1.out_fifos[port])
                  THEN [n1 EXCEPT
                          !.out_fifos[port] = DequeAppend(@, pkt, FIFO_DEPTH),
                          !.pkts_injected = @ + 1]
                  ELSE n1
        IN inject(n2, cyc, Tail(draws))

\* Mutant: tx returns the head of the queue without removing it.
tx_NoPop(npu, port) ==
    IF npu.out_fifos[port] # <<>>
    THEN [pkt |-> <<Head(npu.out_fifos[port])>>, npu |-> npu]
    ELSE [pkt |-> <<>>, npu |-> npu]

\* NPUNode.tx: the packet popped ("None" when the queue is empty) and the
\* node after the pop.
tx(npu, port) ==
    IF npu.out_fifos[port] # <<>>
    THEN [pkt |-> <<Head(npu.out_fifos[port])>>,
          npu |-> [npu EXCEPT !.out_fifos[port] = Tail(@)]]
    ELSE [pkt |-> <<>>, npu |-> npu]

\* Mutant: the latency is recorded but the delivery is not counted.
rx_NoCount(npu, pkt, cyc) ==
    [npu EXCEPT !.latencies = Append(@, latency(pkt, cyc))]

\* NPUNode.rx
rx(npu, pkt, cyc) ==
    [npu EXCEPT !.pkts_delivered = @ + 1,
                !.latencies = Append(@, latency(pkt, cyc))]

\* The packets held in the output queues of a node.
Queued(npu) ==
    UNION {{npu.out_fifos[p][k] : k \in 1 .. Len(npu.out_fifos[p])} :
              p \in 0 .. (npu.n_ports - 1)}

\* The packets a call of inject admitted (line 104): those in the queues of
\* the node after the call that were not there before.
Admitted(before, after) == Queued(after) \ Queued(before)

\* ------------------------------------------------------------------------
\* SW5809s
\* ------------------------------------------------------------------------
\* SW5809s.__init__ under the parameters n_npus (N_NPUS) and ports_per_npu
\* (SW_PORTS_PER_NPU), with SW_XBAR_PORTS = n_npus * ports_per_npu as in
\* the parameter block.  The record keeps n_npus, the length of its
\* per-destination counter lists and the bound of enqueue's destination
\* test.
SW5809sOf(n_npus, ports_per_npu, ecmp_mode) ==
    [n_npus |-> n_npus,
     n_ports |-> n_npus * ports_per_npu,
     ports_per_npu |-> ports_per_npu,
     ecmp_mode |-> ecmp_mode,
     voqs |-> [i \in 0 .. n_npus * ports_per_npu - 1 |->
                 [j \in 0 .. n_npus * ports_per_npu - 1 |-> <<>>]],
     rr |-> [j \in 0 .. n_npus * ports_per_npu - 1 |-> 0],
     ingress_rr |-> [i \in 0 .. n_npus * ports_per_npu - 1 |->
                       [d \in 0 .. n_npus - 1 |-> 0]],
     global_rr |-> [d \in 0 .. n_npus - 1 |-> 0],
     pkts_switched |-> 0,
     pkts_enqueued |-> 0,
     pkts_dropped |-> 0,
     port_enq_count |-> [j \in 0 .. n_npus * ports_per_npu - 1 |-> 0]]

SW5809s(ecmp_mode) ==
    [n_npus |-> N_NPUS,
     n_ports |-> SW_XBAR_PORTS,
     ports_per_npu |-> SW_PORTS_PER_NPU,
     ecmp_mode |-> ecmp_mode,
     voqs |-> [i \in Ports |-> [j \in Ports |-> <<>>]],
     rr |-> [j \in Ports |-> 0],
     ingress_rr |-> [i \in Ports |-> [d \in Nodes |-> 0]],
     global_rr |-> [d \in Nodes |-> 0],
     pkts_switched |-> 0,
     pkts_enqueued |-> 0,
     pkts_dropped |-> 0,
     port_enq_count |-> [j \in Ports |-> 0]]

\* The destination test of enqueue (line 185); sw.n_npus is N_NPUS.
DstRejected(sw, src_npu, dst_npu) ==
    dst_npu = src_npu \/ dst_npu >= sw.n_npus

\* Mutant: the admission test accepts a VOQ that is already full.
VoqHasRoom_Loose(q) == Len(q) <= VOQ_DEPTH

\* The admission test of enqueue (line 204).
VoqHasRoom(q) == Len(q) < VOQ_DEPTH

\* Mutant: the coordinated counter is consulted but never advanced.
Ecmp_NoAdvance(sw, in_port, d) ==
    IF sw.ecmp_mode = "independent"
    THEN [idx |-> sw.ingress_rr[in_port][d],
          sw |-> [sw EXCEPT !.ingress_rr[in_port][d] =
                                (@ + 1) % sw.ports_per_npu]]
    ELSE [idx |-> sw.global_rr[d], sw |-> sw]

\* Mutant: every mode consults the shared counter.
Ecmp_AlwaysGlobal(sw, in_port, d) ==
    [idx |-> sw.global_rr[d],
     sw |-> [sw EXCEPT !.global_rr[d] = (@ + 1) % sw.ports_per_npu]]

\* Mutant: every mode consults the ingress port's own counter.
Ecmp_AlwaysIngress(sw, in_port, d) ==
    [idx |-> sw.ingress_rr[in_port][d],
     sw |-> [sw EXCEPT !.ingress_rr[in_port][d] =
                           (@ + 1) % sw.ports_per_npu]]

\* Mutant: only the mode named "coordinated" consults the shared counter.
Ecmp_OnlyCoordinated(sw, in_port, d) ==
    IF sw.ecmp_mode = "coordinated"
    THEN [idx |-> sw.global_rr[d],
          sw |-> [sw EXCEPT !.global_rr[d] = (@ + 1) % sw.ports_per_npu]]
    ELSE [idx |-> sw.ingress_rr[in_port][d],
          sw |-> [sw EXCEPT !.ingress_rr[in_port][d] =
                                (@ + 1) % sw.ports_per_npu]]

\* Mutant: the consulted counter advances without wrapping around.
Ecmp_NoWrap(sw, in_port, d) ==
    IF sw.ecmp_mode = "independent"
    THEN [idx |-> sw.ingress_rr[in_port][d],
          sw |-> [sw EXCEPT !.ingress_rr[in_port][d] = @ + 1]]
    ELSE [idx |-> sw.global_rr[d],
          sw |-> [sw EXCEPT !.global_rr[d] = @ + 1]]

\* The ECMP step of enqueue (lines 193-200) for the counter position d
\* (dst_npu after Python's index rule): the egress index chosen and the
\* switch with the consulted counter advanced.
Ecmp(sw, in_port, d) ==
    IF sw.ecmp_mode = "independent"
    THEN [idx |-> sw.ingress_rr[in_port][d],
          sw |-> [sw EXCEPT !.ingress_rr[in_port][d] =
                                (@ + 1) % sw.ports_per_npu]]
    ELSE [idx |-> sw.global_rr[d],
          sw |-> [sw EXCEPT !.global_rr[d] = (@ + 1) % sw.ports_per_npu]]

\* The rejection outcome of enqueue for an invalid destination (line 186).
RejectInvalid(sw) == [sw |-> sw, ret |-> "False"]

\* Mutant: a packet dropped for a full VOQ is not counted.
DropFull_Uncounted(sw) == [sw |-> sw, ret |-> "False"]

\* The outcome of enqueue when the selected VOQ is full (lines 209-210).
DropFull(sw) == [sw |-> [sw EXCEPT !.pkts_dropped = @ + 1], ret |-> "False"]

\* Mutant: the ECMP counter advances only when the packet is accepted.
enqueue_AdvanceOnAccept(sw, src_npu, in_port_hint, pkt) ==
    LET dst_npu == pkt.dst
        in_port == src_npu * sw.ports_per_npu
                       + (in_port_hint % sw.ports_per_npu)
        dst_base == dst_npu * sw.ports_per_npu
        d == PyIndex(dst_npu, sw.n_npus)
    IN  IF DstRejected(sw, src_npu, dst_npu) THEN RejectInvalid(sw)
        ELSE IF d = -1 THEN [sw |-> sw, ret |-> "IndexError"]
        ELSE
            LET e == Ecmp(sw, in_port, d)
                out_port == PyIndex(dst_base + e.idx, sw.n_ports)
            IN  IF out_port = -1 THEN [sw |-> e.sw, ret |-> "IndexError"]
                ELSE IF VoqHasRoom(e.sw.voqs[in_port][out_port])
                THEN [sw |-> [e.sw EXCEPT
                                !.voqs[in_port][out_port] =
                                    DequeAppend(@, pkt, VOQ_DEPTH),
                                !.pkts_enqueued = @ + 1,
                                !.port_enq_count[out_port] = @ + 1],
                      ret |-> "True"]
                ELSE DropFull(sw)

\* SW5809s.enqueue: the switch after the call and what the call returned
\* ("True", "False", or "IndexError" when a list index is out of range).
enqueue(sw, src_npu, in_port_hint, pkt) ==
    LET dst_npu == pkt.dst
        in_port == src_npu * sw.ports_per_npu
                       + (in_port_hint % sw.ports_per_npu)
        dst_base == dst_npu * sw.ports_per_npu
        d == PyIndex(dst_npu, sw.n_npus)
    IN  IF DstRejected(sw, src_npu, dst_npu) THEN RejectInvalid(sw)
        ELSE IF d = -1 THEN [sw |-> sw, ret |-> "IndexError"]
        ELSE
            LET e == Ecmp(sw, in_port, d)
                out_port == PyIndex(dst_base + e.idx, sw.n_ports)
            IN  IF out_port = -1 THEN [sw |-> e.sw, ret |-> "IndexError"]
                ELSE IF VoqHasRoom(e.sw.voqs[in_port][out_port])
                THEN [sw |-> [e.sw EXCEPT
                                !.voqs[in_port][out_port] =
                                    DequeAppend(@, pkt, VOQ_DEPTH),
                                !.pkts_enqueued = @ + 1,
                                !.port_enq_count[out_port] = @ + 1],
                      ret |-> "True"]
                ELSE DropFull(e.sw)

\* Mutant: the scan does not skip the ports of the destination node.
ScanOrder_NoSkip(sw, out_port) ==
    [k \in 1 .. sw.n_ports |-> (sw.rr[out_port] + (k - 1)) % sw.n_ports]

\* The ingress ports the arbiter of egress port out_port considers, in scan
\* order (lines 223-226): cyclic from rr[out_port], loopback ports skipped.
ScanOrder(sw, out_port) ==
    LET dest_npu == out_port \div sw.ports_per_npu
        all == [k \in 1 .. sw.n_ports |->
                   (sw.rr[out_port] + (k - 1)) % sw.n_ports]
    IN  SelectSeq(all, LAMBDA i : i \div sw.ports_per_npu # dest_npu)

\* Mutant: the scan goes on after a grant (the break of line 232 is lost).
RECURSIVE arbitrate_NoBreak(_, _, _)
arbitrate_NoBreak(acc, out_port, scan) ==
    IF scan = <<>> THEN acc
    ELSE
        LET in_port == Head(scan)
            q == acc.sw.voqs[in_port][out_port]
        IN  IF q # <<>>
            THEN arbitrate_NoBreak(
                    [sw |-> [acc.sw EXCEPT
                               !.voqs[in_port][out_port] = Tail(@),
                               !.rr[out_port] = (in_port + 1) % acc.sw.n_ports,
                               !.pkts_switched = @ + 1],
                     delivered |-> Append(acc.delivered,
                        <<out_port \div acc.sw.ports_per_npu, Head(q)>>),
                     granted |-> Append(acc.granted, <<in_port, out_port>>)],
                    out_port, Tail(scan))
            ELSE arbitrate_NoBreak(acc, out_port, Tail(scan))

\* Mutant: after a grant the round-robin pointer is left on the granted
\* ingress port.
RECURSIVE arbitrate_RrStay(_, _, _)
arbitrate_RrStay(acc, out_port, scan) ==
    IF scan = <<>> THEN acc
    ELSE
        LET in_port == Head(scan)
            q == acc.sw.voqs[in_port][out_port]
        IN  IF q # <<>>
            THEN [sw |-> [acc.sw EXCEPT
                            !.voqs[in_port][out_port] = Tail(@),
                            !.rr[out_port] = in_port % acc.sw.n_ports,
                            !.pkts_switched = @ + 1],
                  delivered |-> Append(acc.delivered,
                        <<out_port \div acc.sw.ports_per_npu, Head(q)>>),
                  granted |-> Append(acc.granted, <<in_port, out_port>>)]
            ELSE arbitrate_RrStay(acc, out_port, Tail(scan))

\* Mutant: a scan that finds nothing to grant still advances the pointer.
RECURSIVE arbitrate_IdleAdvance(_, _, _)
arbitrate_IdleAdvance(acc, out_port, scan) ==
    IF scan = <<>>
    THEN [acc EXCEPT !.sw.rr[out_port] = (@ + 1) % acc.sw.n_ports]
    ELSE
        LET in_port == Head(scan)
            q == acc.sw.voqs[in_port][out_port]
        IN  IF q # <<>>
            THEN [sw |-> [acc.sw EXCEPT
                            !.voqs[in_port][out_port] = Tail(@),
                            !.rr[out_port] = (in_port + 1) % acc.sw.n_ports,
                            !.pkts_switched = @ + 1],
                  delivered |-> Append(acc.delivered,
                        <<out_port \div acc.sw.ports_per_npu, Head(q)>>),
                  granted |-> Append(acc.granted, <<in_port, out_port>>)]
            ELSE arbitrate_IdleAdvance(acc, out_port, Tail(scan))

\* Mutant: an ingress port that has been granted in this call is passed
\* over by the egress ports processed later.
RECURSIVE arbitrate_IngressOnce(_, _, _)
arbitrate_IngressOnce(acc, out_port, scan) ==
    IF scan = <<>> THEN acc
    ELSE
        LET in_port == Head(scan)
            q == acc.sw.voqs[in_port][out_port]
            taken == \E k \in 1 .. Len(acc.granted) :
                        acc.granted[k][1] = in_port
        IN  IF q # <<>> /\ ~taken
            THEN [sw |-> [acc.sw EXCEPT
                            !.voqs[in_port][out_port] = Tail(@),
                            !.rr[out_port] = (in_port + 1) % acc.sw.n_ports,
                            !.pkts_switched = @ + 1],
                  delivered |-> Append(acc.delivered,
                        <<out_port \div acc.sw.ports_per_npu, Head(q)>>),
                  granted |-> Append(acc.granted, <<in_port, out_port>>)]
            ELSE arbitrate_IngressOnce(acc, out_port, Tail(scan))

\* The inner loop of schedule for one egress port (lines 223-232): grant the
\* first non-empty VOQ of the scan and stop.  acc carries the switch, the
\* list returned so far and the (in_port, out_port) pairs granted so far.
RECURSIVE arbitrate(_, _, _)
arbitrate(acc, out_port, scan) ==
    IF scan = <<>> THEN acc
    ELSE
        LET in_port == Head(scan)
            q == acc.sw.voqs[in_port][out_port]
        IN  IF q # <<>>
            THEN [sw |-> [acc.sw EXCEPT
                            !.voqs[in_port][out_port] = Tail(@),
                            !.rr[out_port] = (in_port + 1) % acc.sw.n_ports,
                            !.pkts_switched = @ + 1],
                  delivered |-> Append(acc.delivered,
                        <<out_port \div acc.sw.ports_per_npu, Head(q)>>),
                  granted |-> Append(acc.granted, <<in_port, out_port>>)]
            ELSE arbitrate(acc, out_port, Tail(scan))

\* The outer loop of schedule (line 220) from egress port out_port on.
RECURSIVE scheduleFrom(_, _)
scheduleFrom(acc, out_port) ==
    IF out_port >= acc.sw.n_ports THEN acc
    ELSE scheduleFrom(arbitrate(acc, out_port, ScanOrder(acc.sw, out_port)),
                      out_port + 1)

\* SW5809s.schedule: the switch after the call, the list it returns, and
\* the ports of each grant in the same order.
schedule(sw) ==
    scheduleFrom([sw |-> sw, delivered |-> <<>>, granted |-> <<>>], 0)

\* The body of schedule's outer loop (lines 221-232) applied to the egress
\* ports in the order given, instead of range(n_ports).
RECURSIVE scheduleInOrder(_, _)
scheduleInOrder(acc, order) ==
    IF order = <<>> THEN acc
    ELSE scheduleInOrder(
            arbitrate(acc, Head(order), ScanOrder(acc.sw, Head(order))),
            Tail(order))

\* Every order in which the egress ports can be processed.
EgressOrders ==
    {o \in [1 .. SW_XBAR_PORTS -> Ports] :
        \A a, b \in 1 .. SW_XBAR_PORTS : o[a] = o[b] => a = b}

\* SW5809s.occupancy
RECURSIVE SumLen(_, _)
SumLen(f, S) ==
    IF S = {} THEN 0
    ELSE LET x == CHOOSE y \in S : TRUE
         IN  Len(f[x]) + SumLen(f, S \ {x})

RECURSIVE SumOver(_, _)
SumOver(f, S) ==
    IF S = {} THEN 0
    ELSE LET x == CHOOSE y \in S : TRUE
         IN  f[x] + SumOver(f, S \ {x})

occupancy(sw) ==
    SumOver([i \in Ports |-> SumLen(sw.voqs[i], Ports)], Ports)

\* Minimum and maximum of a non-empty set of numbers.
SetMin(S) == CHOOSE x \in S : \A y \in S : x <= y

SetMax(S) == CHOOSE x \in S : \A y \in S : x >= y

\* SW5809s.npu_to_ports
npu_to_ports(sw, npu_id) ==
    (npu_id * sw.ports_per_npu) .. (npu_id * sw.ports_per_npu
                                       + sw.ports_per_npu - 1)

\* SW5809s.port_load_imbalance.  The three values returned are quotients;
\* each is given as <<numerator, denominator>>: the per-node minimum, average
\* and maximum enqueue count, each averaged over the nodes whose ports have
\* been used.
port_load_imbalance(sw) ==
    LET used == {n \in Nodes :
                    SetMax({sw.port_enq_count[p] :
                               p \in npu_to_ports(sw, n)}) > 0}
        counts(n) == [p \in npu_to_ports(sw, n) |-> sw.port_enq_count[p]]
        mins == [n \in Nodes |->
                    SetMin({sw.port_enq_count[p] : p \in npu_to_ports(sw, n)})]
        sums == [n \in Nodes |-> SumOver(counts(n), npu_to_ports(sw, n))]
        maxs == [n \in Nodes |->
                    SetMax({sw.port_enq_count[p] : p \in npu_to_ports(sw, n)})]
    IN  IF used = {}
        THEN [min |-> <<0, 1>>, avg |-> <<0, 1>>, max |-> <<0, 1>>]
        ELSE [min |-> <<SumOver(mins, used), Cardinality(used)>>,
              avg |-> <<SumOver(sums, used),
                        sw.ports_per_npu * Cardinality(used)>>,
              max |-> <<SumOver(maxs, used), Cardinality(used)>>]

\* ------------------------------------------------------------------------
\* Statistics helper
\* ------------------------------------------------------------------------
\* The loop of line 388: the latency lists of the nodes from node i on,
\* joined in list order.
RECURSIVE ConcatLatencies(_, _)
ConcatLatencies(nodes, i) ==
    IF i \notin DOMAIN nodes THEN <<>>
    ELSE nodes[i].latencies \o ConcatLatencies(nodes, i + 1)

\* Mutant: the bin width is rounded down.
BinWidth_Floor(lo, hi, bins) ==
    LET w == (hi - lo) \div bins IN IF w > 1 THEN w ELSE 1

\* The bin width of _hist (line 393).
BinWidth(lo, hi, bins) ==
    LET w == (hi - lo + bins - 1) \div bins IN IF w > 1 THEN w ELSE 1

\* _hist: the three values returned, for the nodes 0 .. N_NPUS - 1 in list
\* order.
_hist(nodes, bins) ==
    LET lats == ConcatLatencies(nodes, 0)
        vals == {lats[k] : k \in 1 .. Len(lats)}
        lo == SetMin(vals)
        hi == SetMax(vals)
        bw == BinWidth(lo, hi, bins)
        bin(l) == IF (l - lo) \div bw < bins - 1
                  THEN (l - lo) \div bw ELSE bins - 1
    IN  IF lats = <<>> THEN [h |-> <<>>, lo |-> 0, hi |-> 0]
        ELSE IF lo = hi THEN [h |-> <<Len(lats)>>, lo |-> lo, hi |-> hi]
        ELSE [h |-> [b \in 1 .. bins |->
                       Cardinality({k \in 1 .. Len(lats) :
                                       bin(lats[k]) = b - 1})],
              lo |-> lo, hi |-> hi]

\* ------------------------------------------------------------------------
\* FM16System
\* ------------------------------------------------------------------------
\* Mutant: the pipeline latency is left out of the tag.
FMArrival_NoPipeline(cyc, qlat) == cyc + qlat

\* Mutant: the arrival tag ignores the queue length.
FMArrival_NoQueue(cyc, qlat) == cyc + FM_LINK_LATENCY

\* The arrival tag of a mesh packet (lines 275-276): qlat is the length of
\* the output queue right after the pop.
FMArrival(cyc, qlat) == cyc + FM_LINK_LATENCY + qlat

\* Mutant: the link limit is lost and the queue is drained.
RECURSIVE fmSendPort_Drain(_, _, _, _, _)
fmSendPort_Drain(npu, port, k, inflight, cyc) ==
    LET t == tx(npu, port)
    IN  IF t.pkt = <<>> THEN [npu |-> npu, inflight |-> inflight]
        ELSE IF t.pkt[1].dst = npu.id
        THEN fmSendPort_Drain(t.npu, port, k, inflight, cyc)
        ELSE fmSendPort_Drain(t.npu, port, k,
                 Append(inflight,
                        <<FMArrival(cyc, Len(t.npu.out_fifos[port])),
                          t.pkt[1]>>),
                 cyc)

\* The innermost loop of the transmit phase (lines 271-276): k more
\* iterations for one node and one port.
RECURSIVE fmSendPort(_, _, _, _, _)
fmSendPort(npu, port, k, inflight, cyc) ==
    IF k = 0 THEN [npu |-> npu, inflight |-> inflight]
    ELSE
        LET t == tx(npu, port)
        IN  IF t.pkt = <<>> THEN [npu |-> npu, inflight |-> inflight]
            ELSE IF t.pkt[1].dst = npu.id
            THEN fmSendPort(t.npu, port, k - 1, inflight, cyc)
            ELSE fmSendPort(t.npu, port, k - 1,
                     Append(inflight,
                            <<FMArrival(cyc, Len(t.npu.out_fifos[port])),
                              t.pkt[1]>>),
                     cyc)

\* The port loop of the transmit phase (line 270) from port on.
RECURSIVE fmSendNode(_, _, _, _)
fmSendNode(npu, port, inflight, cyc) ==
    IF port >= N_NPUS THEN [npu |-> npu, inflight |-> inflight]
    ELSE LET r == fmSendPort(npu, port, FM_LINKS_PER_PAIR, inflight, cyc)
         IN  fmSendNode(r.npu, port + 1, r.inflight, cyc)

\* The node loop of the transmit phase (line 269) from node i on.
RECURSIVE fmSendAll(_, _, _, _)
fmSendAll(ns, i, inflight, cyc) ==
    IF i >= N_NPUS THEN [npus |-> ns, inflight |-> inflight]
    ELSE LET r == fmSendNode(ns[i], 0, inflight, cyc)
         IN  fmSendAll([ns EXCEPT ![i] = r.npu], i + 1, r.inflight, cyc)

\* Mutant: the packet is handed back to its source.
RxTarget_Src(pkt) == pkt.src

\* The node a delivery loop hands a packet to (lines 281 and 341).
RxTarget(pkt) == pkt.dst

\* The delivery loop over a delay list of (arrival, packet) entries (lines
\* 278-284 and 338-344).  calls lists the rx calls made, in order, as
\* (node, packet, cycle).
RECURSIVE deliver(_, _, _, _, _)
deliver(ns, list, cyc, keep, calls) ==
    IF list = <<>> THEN [npus |-> ns, keep |-> keep, calls |-> calls]
    ELSE
        LET t == Head(list)[1]
            pkt == Head(list)[2]
            n == RxTarget(pkt)
        IN  IF t <= cyc
            THEN deliver([ns EXCEPT ![n] = rx(@, pkt, cyc)], Tail(list), cyc,
                         keep, Append(calls, <<n, pkt, cyc>>))
            ELSE deliver(ns, Tail(list), cyc, Append(keep, Head(list)), calls)

\* FM16System.step.  draws[i] is the PRNG outcome of node i's injection
\* attempts of this cycle.
FM16System_step(sys, draws) ==
    LET injected == [i \in Nodes |-> inject(sys.npus[i], sys.cycle, draws[i])]
        sent == fmSendAll(injected, 0, sys.inflight, sys.cycle)
        del == deliver(sent.npus, sent.inflight, sys.cycle, <<>>, <<>>)
    IN  [npus |-> del.npus,
         inflight |-> del.keep,
         cycle |-> sys.cycle + 1,
         rx_calls |-> del.calls,
         admitted |-> UNION {Admitted(sys.npus[i], injected[i]) : i \in Nodes}]

\* The transmit phase and the step under a setting `links` of
\* FM_LINKS_PER_PAIR (the source's value is 4): the same loops with the
\* innermost one running `links` times.
RECURSIVE fmSendNodeOf(_, _, _, _, _)
fmSendNodeOf(npu, port, links, inflight, cyc) ==
    IF port >= N_NPUS THEN [npu |-> npu, inflight |-> inflight]
    ELSE LET r == fmSendPort(npu, port, links, inflight, cyc)
         IN  fmSendNodeOf(r.npu, port + 1, links, r.inflight, cyc)

RECURSIVE fmSendAllOf(_, _, _, _, _)
fmSendAllOf(ns, i, links, inflight, cyc) ==
    IF i >= N_NPUS THEN [npus |-> ns, inflight |-> inflight]
    ELSE LET r == fmSendNodeOf(ns[i], 0, links, inflight, cyc)
         IN  fmSendAllOf([ns EXCEPT ![i] = r.npu], i + 1, links, r.inflight,
                         cyc)

FM16System_stepOf(sys, draws, links) ==
    LET injected == [i \in Nodes |-> inject(sys.npus[i], sys.cycle, draws[i])]
        sent == fmSendAllOf(injected, 0, links, sys.inflight, sys.cycle)
        del == deliver(sent.npus, sent.inflight, sys.cycle, <<>>, <<>>)
    IN  [npus |-> del.npus,
         inflight |-> del.keep,
         cycle |-> sys.cycle + 1,
         rx_calls |-> del.calls,
         admitted |-> UNION {Admitted(sys.npus[i], injected[i]) : i \in Nodes}]

\* ------------------------------------------------------------------------
\* SW16System
\* ------------------------------------------------------------------------
\* The arrival tags of the two hops (lines 319 and 335).
\* Mutant: the first hop is tagged one cycle short.
ToSwitchArrival_Short(cyc) == cyc + SW_LINK_LATENCY - 1

ToSwitchArrival(cyc) == cyc + SW_LINK_LATENCY

\* Mutant: the crossbar latency is left out of the second hop.
ToNpuArrival_NoXbar(cyc) == cyc + SW_LINK_LATENCY

ToNpuArrival(cyc) == cyc + SW_XBAR_LATENCY + SW_LINK_LATENCY

\* Mutant: the ingress port is taken from the queue index instead of the
\* count of packets sent.
RECURSIVE swSendPort_ByQueue(_, _, _, _, _)
swSendPort_ByQueue(npu, port, sent, to_sw, cyc) ==
    IF sent >= SW_LINKS_PER_NPU
    THEN [npu |-> npu, sent |-> sent, to_switch |-> to_sw]
    ELSE
        LET t == tx(npu, port)
        IN  IF t.pkt = <<>>
            THEN [npu |-> npu, sent |-> sent, to_switch |-> to_sw]
            ELSE IF t.pkt[1].dst = npu.id
            THEN swSendPort_ByQueue(t.npu, port, sent, to_sw, cyc)
            ELSE swSendPort_ByQueue(t.npu, port, sent + 1,
                     Append(to_sw, <<ToSwitchArrival(cyc), npu.id,
                                     port % SW_PORTS_PER_NPU, t.pkt[1]>>),
                     cyc)

\* Mutant: a node pushes at most SW_PORTS_PER_NPU packets per cycle.
RECURSIVE swSendPort_PortLimit(_, _, _, _, _)
swSendPort_PortLimit(npu, port, sent, to_sw, cyc) ==
    IF sent >= SW_PORTS_PER_NPU
    THEN [npu |-> npu, sent |-> sent, to_switch |-> to_sw]
    ELSE
        LET t == tx(npu, port)
        IN  IF t.pkt = <<>>
            THEN [npu |-> npu, sent |-> sent, to_switch |-> to_sw]
            ELSE IF t.pkt[1].dst = npu.id
            THEN swSendPort_PortLimit(t.npu, port, sent, to_sw, cyc)
            ELSE swSendPort_PortLimit(t.npu, port, sent + 1,
                     Append(to_sw, <<ToSwitchArrival(cyc), npu.id,
                                     sent % SW_PORTS_PER_NPU, t.pkt[1]>>),
                     cyc)

\* The while loop of the transmit phase (lines 313-321) for one port.
RECURSIVE swSendPort(_, _, _, _, _)
swSendPort(npu, port, sent, to_sw, cyc) ==
    IF sent >= SW_LINKS_PER_NPU
    THEN [npu |-> npu, sent |-> sent, to_switch |-> to_sw]
    ELSE
        LET t == tx(npu, port)
        IN  IF t.pkt = <<>>
            THEN [npu |-> npu, sent |-> sent, to_switch |-> to_sw]
            ELSE IF t.pkt[1].dst = npu.id
            THEN swSendPort(t.npu, port, sent, to_sw, cyc)
            ELSE swSendPort(t.npu, port, sent + 1,
                     Append(to_sw, <<ToSwitchArrival(cyc), npu.id,
                                     sent % SW_PORTS_PER_NPU, t.pkt[1]>>),
                     cyc)

\* The port loop of the transmit phase (line 312) from port on.
RECURSIVE swSendNode(_, _, _, _, _)
swSendNode(npu, port, sent, to_sw, cyc) ==
    IF port >= N_NPUS THEN [npu |-> npu, to_switch |-> to_sw]
    ELSE LET r == swSendPort(npu, port, sent, to_sw, cyc)
         IN  swSendNode(r.npu, port + 1, r.sent, r.to_switch, cyc)

\* The node loop of the transmit phase (line 310) from node i on.
RECURSIVE swSendAll(_, _, _, _)
swSendAll(ns, i, to_sw, cyc) ==
    IF i >= N_NPUS THEN [npus |-> ns, to_switch |-> to_sw]
    ELSE LET r == swSendNode(ns[i], 0, 0, to_sw, cyc)
         IN  swSendAll([ns EXCEPT ![i] = r.npu], i + 1, r.to_switch, cyc)

\* The switch arrival loop (lines 324-330); the value enqueue returns is
\* not used by the caller.  calls lists the enqueue calls made, in order,
\* as (src, port_idx, packet, value returned).
RECURSIVE swArrive(_, _, _, _, _)
swArrive(sw, list, cyc, keep, calls) ==
    IF list = <<>> THEN [sw |-> sw, keep |-> keep, calls |-> calls]
    ELSE
        LET e == Head(list)
        IN  IF e[1] <= cyc
            THEN LET r == enqueue(sw, e[2], e[3], e[4])
                 IN  swArrive(r.sw, Tail(list), cyc, keep,
                              Append(calls, <<e[2], e[3], e[4], r.ret>>))
            ELSE swArrive(sw, Tail(list), cyc, Append(keep, e), calls)

\* The grants of one schedule call tagged for the second hop (lines
\* 334-335).
RECURSIVE tagGrants(_, _, _)
tagGrants(to_npu, delivered, cyc) ==
    IF delivered = <<>> THEN to_npu
    ELSE tagGrants(Append(to_npu, <<ToNpuArrival(cyc), Head(delivered)[2]>>),
                   Tail(delivered), cyc)

\* Mutant: the crossbar is scheduled before the arrivals of the cycle are
\* enqueued.
SW16System_step_ScheduleFirst(sys, draws) ==
    LET injected == [i \in Nodes |-> inject(sys.npus[i], sys.cycle, draws[i])]
        sent == swSendAll(injected, 0, sys.to_switch, sys.cycle)
        sch == schedule(sys.switch)
        arr == swArrive(sch.sw, sent.to_switch, sys.cycle, <<>>, <<>>)
        tagged == tagGrants(sys.to_npu, sch.delivered, sys.cycle)
        del == deliver(sent.npus, tagged, sys.cycle, <<>>, <<>>)
    IN  [npus |-> del.npus,
         switch |-> arr.sw,
         to_switch |-> arr.keep,
         to_npu |-> del.keep,
         cycle |-> sys.cycle + 1,
         rx_calls |-> del.calls,
         granted |-> sch.granted,
         admitted |-> UNION {Admitted(sys.npus[i], injected[i]) : i \in Nodes},
         enq_calls |-> arr.calls]

\* SW16System.step.
SW16System_step(sys, draws) ==
    LET injected == [i \in Nodes |-> inject(sys.npus[i], sys.cycle, draws[i])]
        sent == swSendAll(injected, 0, sys.to_switch, sys.cycle)
        arr == swArrive(sys.switch, sent.to_switch, sys.cycle, <<>>, <<>>)
        sch == schedule(arr.sw)
        tagged == tagGrants(sys.to_npu, sch.delivered, sys.cycle)
        del == deliver(sent.npus, tagged, sys.cycle, <<>>, <<>>)
    IN  [npus |-> del.npus,
         switch |-> sch.sw,
         to_switch |-> arr.keep,
         to_npu |-> del.keep,
         cycle |-> sys.cycle + 1,
         rx_calls |-> del.calls,
         granted |-> sch.granted,
         admitted |-> UNION {Admitted(sys.npus[i], injected[i]) : i \in Nodes},
         enq_calls |-> arr.calls]

\* ------------------------------------------------------------------------
\* State
\* ------------------------------------------------------------------------
VARIABLES
    topo,        \* which object this run drives: "FM16", "SW16", "SW5809s"
    npus,        \* FM16System.npus / SW16System.npus
    cycle,       \* FM16System.cycle / SW16System.cycle
    inflight,    \* FM16System._inflight
    to_switch,   \* SW16System._to_switch
    to_npu,      \* SW16System._to_npu
    switch,      \* SW16System.switch, or the stand-alone SW5809s
    rx_calls,    \* the rx calls of the last step: (node, packet, cycle)
    call,        \* the last call on the switch and its result (in SW16, the
                 \* ports granted by the step's schedule call)
    ncalls,      \* enqueue calls made so far on the stand-alone switch
    ledger       \* what has happened so far to the packets of a system or
                 \* of the stand-alone switch: the set admitted by inject,
                 \* the packets handed to rx in order, and the packets
                 \* enqueue dropped for a full VOQ in order

vars == <<topo, npus, cycle, inflight, to_switch, to_npu, switch, rx_calls,
          call, ncalls, ledger>>

NoLedger == [injected |-> {}, delivered |-> <<>>, dropped |-> <<>>]

\* The packets of a list of rx calls / of the enqueue calls that returned
\* False.
RxPackets(calls) == [k \in 1 .. Len(calls) |-> calls[k][2]]

DroppedPackets(calls) ==
    LET failed == SelectSeq(calls, LAMBDA c : c[4] # "True")
    IN  [k \in 1 .. Len(failed) |-> failed[k][3]]

EcmpModes == {"independent", "coordinated", "ideal_rr"}

NoCall == [op |-> "none"]

\* FM16System.__init__
InitFM ==
    /\ topo = "FM16"
    /\ npus = [i \in Nodes |-> NPUNode(i, N_NPUS)]
    /\ cycle = 0
    /\ inflight = <<>>
    /\ to_switch = <<>>
    /\ to_npu = <<>>
    /\ switch = [ecmp_mode |-> "none"]
    /\ rx_calls = <<>>
    /\ call = NoCall
    /\ ncalls = 0
    /\ ledger = NoLedger

\* SW16System.__init__
InitSW ==
    /\ topo = "SW16"
    /\ npus = [i \in Nodes |-> NPUNode(i, N_NPUS)]
    /\ cycle = 0
    /\ inflight = <<>>
    /\ to_switch = <<>>
    /\ to_npu = <<>>
    /\ \E m \in EcmpModes : switch = SW5809s(m)
    /\ rx_calls = <<>>
    /\ call = NoCall
    /\ ncalls = 0
    /\ ledger = NoLedger

\* SW5809s.__init__, the switch on its own
InitSwitch ==
    /\ topo = "SW5809s"
    /\ npus = <<>>
    /\ cycle = 0
    /\ inflight = <<>>
    /\ to_switch = <<>>
    /\ to_npu = <<>>
    /\ \E m \in EcmpModes : switch = SW5809s(m)
    /\ rx_calls = <<>>
    /\ call = NoCall
    /\ ncalls = 0
    /\ ledger = NoLedger

\* The PRNG outcomes of one cycle: INJECT_BATCH attempts per node.
DrawSeqs(nid) == [1 .. INJECT_BATCH -> Draws(nid)]

AllDraws ==
    {f \in [Nodes -> UNION {DrawSeqs(i) : i \in Nodes}] :
        \A i \in Nodes : f[i] \in DrawSeqs(i)}

\* Packets created so far, and by a cycle's draws.
Created == SumOver([i \in Nodes |-> npus[i].seq], Nodes)

NewPkts(draws) ==
    SumOver([i \in Nodes |->
                Cardinality({k \in 1 .. INJECT_BATCH : draws[i][k].inject})],
            Nodes)

FMStep ==
    /\ topo = "FM16"
    /\ cycle < MaxCycleFM
    /\ \E draws \in AllDraws :
        /\ Created + NewPkts(draws) <= MaxPktsFM
        /\ \E r \in {FM16System_step(
                        [npus |-> npus, cycle |-> cycle,
                         inflight |-> inflight], draws)} :
               /\ npus' = r.npus
               /\ inflight' = r.inflight
               /\ cycle' = r.cycle
               /\ rx_calls' = r.rx_calls
               /\ ledger' = [ledger EXCEPT
                                !.injected = @ \cup r.admitted,
                                !.delivered = @ \o RxPackets(r.rx_calls)]
    /\ UNCHANGED <<topo, to_switch, to_npu, switch, call, ncalls>>

SWStep ==
    /\ topo = "SW16"
    /\ cycle < MaxCycle
    /\ \E draws \in AllDraws :
        /\ Created + NewPkts(draws) <= MaxPktsSW
        /\ \E r \in {SW16System_step(
                        [npus |-> npus, cycle |-> cycle, switch |-> switch,
                         to_switch |-> to_switch, to_npu |-> to_npu], draws)} :
               /\ npus' = r.npus
               /\ switch' = r.switch
               /\ to_switch' = r.to_switch
               /\ to_npu' = r.to_npu
               /\ cycle' = r.cycle
               /\ rx_calls' = r.rx_calls
               /\ call' = [op |-> "schedule", granted |-> r.granted]
               /\ ledger' = [ledger EXCEPT
                                !.injected = @ \cup r.admitted,
                                !.delivered = @ \o RxPackets(r.rx_calls),
                                !.dropped = @ \o DroppedPackets(r.enq_calls)]
    /\ UNCHANGED <<topo, inflight, ncalls>>

\* Direct calls on a stand-alone switch.  The packets offered include
\* destinations no node generates: the caller's own node, node ids past the
\* last node, and negative node ids.
DstInputs == (-(N_NPUS + 1)) .. N_NPUS

Hints == 0 .. (SW_PORTS_PER_NPU - 1)

EnqueueCall ==
    /\ topo = "SW5809s"
    /\ ncalls < MaxEnq
    /\ \E src \in Nodes, hint \in Hints, dst \in DstInputs :
        \E r \in {enqueue(switch, src, hint, Packet(src, dst, ncalls, 0))} :
            /\ switch' = r.sw
            /\ call' = [op |-> "enqueue", src_npu |-> src,
                        in_port_hint |-> hint,
                        pkt |-> Packet(src, dst, ncalls, 0), ret |-> r.ret]
            /\ ledger' = [ledger EXCEPT !.dropped =
                             IF r.sw.pkts_dropped # switch.pkts_dropped
                             THEN Append(@, Packet(src, dst, ncalls, 0))
                             ELSE @]
    /\ ncalls' = ncalls + 1
    /\ UNCHANGED <<topo, npus, cycle, inflight, to_switch, to_npu, rx_calls>>

ScheduleCall ==
    /\ topo = "SW5809s"
    /\ \E r \in {schedule(switch)} :
           /\ switch' = r.sw
           /\ call' = [op |-> "schedule", delivered |-> r.delivered,
                       granted |-> r.granted]
    /\ UNCHANGED <<topo, npus, cycle, inflight, to_switch, to_npu, rx_calls,
                   ncalls, ledger>>

\* The switch driven as SW16System.step drives it (lines 312-330): the
\* ingress port hint is one of the source's ports_per_npu link groups and
\* the destination is another node, as NPUNode.inject draws it.
FabricEnqueueCall ==
    /\ topo = "SW5809s"
    /\ ncalls < MaxEnq
    /\ \E src \in Nodes, hint \in 0 .. SW_PORTS_PER_NPU - 1 :
       \E dst \in DstChoices(src) :
        \E r \in {enqueue(switch, src, hint, Packet(src, dst, ncalls, 0))} :
            /\ switch' = r.sw
            /\ call' = [op |-> "enqueue", src_npu |-> src,
                        in_port_hint |-> hint,
                        pkt |-> Packet(src, dst, ncalls, 0), ret |-> r.ret]
            /\ ledger' = [ledger EXCEPT !.dropped =
                             IF r.sw.pkts_dropped # switch.pkts_dropped
                             THEN Append(@, Packet(src, dst, ncalls, 0))
                             ELSE @]
    /\ ncalls' = ncalls + 1
    /\ UNCHANGED <<topo, npus, cycle, inflight, to_switch, to_npu, rx_calls>>

SpecFabricSwitch == InitSwitch /\ [][FabricEnqueueCall \/ ScheduleCall]_vars

\* The parameter settings of the stand-alone switch runs below, as
\* <<N_NPUS, SW_PORTS_PER_NPU>>: three nodes with two ports each, and the
\* degenerate one port per node.
SizedConfigs == {<<3, 2>>, <<3, 1>>}

\* SW5809s.__init__ under one of these settings.
InitSized ==
    /\ topo = "SW5809s"
    /\ npus = <<>>
    /\ cycle = 0
    /\ inflight = <<>>
    /\ to_switch = <<>>
    /\ to_npu = <<>>
    /\ \E cfg \in SizedConfigs, m \in EcmpModes :
          switch = SW5809sOf(cfg[1], cfg[2], m)
    /\ rx_calls = <<>>
    /\ call = NoCall
    /\ ncalls = 0
    /\ ledger = NoLedger

\* What SW16System.step can offer the switch it drives (lines 312-330): a
\* source node, one of its ports_per_npu link groups and a packet for
\* another node.
Offers(sw) ==
    {<<src, hint, dst>> \in
        (0 .. sw.n_npus - 1) \X (0 .. sw.ports_per_npu - 1)
            \X (0 .. sw.n_npus - 1) : dst # src}

\* One enqueue call on the switch of that setting.
SizedEnqueueCall ==
    /\ topo = "SW5809s"
    /\ ncalls < MaxSizedEnq
    /\ \E o \in Offers(switch) :
        \E r \in {enqueue(switch, o[1], o[2], Packet(o[1], o[3], ncalls, 0))} :
            /\ switch' = r.sw
            /\ call' = [op |-> "enqueue", src_npu |-> o[1],
                        in_port_hint |-> o[2],
                        pkt |-> Packet(o[1], o[3], ncalls, 0), ret |-> r.ret]
            /\ ledger' = [ledger EXCEPT !.dropped =
                             IF r.sw.pkts_dropped # switch.pkts_dropped
                             THEN Append(@, Packet(o[1], o[3], ncalls, 0))
                             ELSE @]
    /\ ncalls' = ncalls + 1
    /\ UNCHANGED <<topo, npus, cycle, inflight, to_switch, to_npu, rx_calls>>

SpecSized == InitSized /\ [][SizedEnqueueCall \/ ScheduleCall]_vars

\* The statistics helper on its own: nodes whose latency lists were filled by
\* rx calls, then _hist called with some number of bins.
InitStats ==
    /\ topo = "Stats"
    /\ npus = [i \in Nodes |-> NPUNode(i, N_NPUS)]
    /\ cycle = 0
    /\ inflight = <<>>
    /\ to_switch = <<>>
    /\ to_npu = <<>>
    /\ switch = [ecmp_mode |-> "none"]
    /\ rx_calls = <<>>
    /\ call = NoCall
    /\ ncalls = 0
    /\ ledger = NoLedger

\* A node receives a packet injected at cycle 0 after l cycles.
StatsRx ==
    /\ topo = "Stats"
    /\ SumOver([i \in Nodes |-> npus[i].pkts_delivered], Nodes) < MaxLats
    /\ \E i \in Nodes, l \in 0 .. MaxLat :
          \E s \in DstChoices(i) :
             npus' = [npus EXCEPT ![i] = rx(@, Packet(s, i, 0, 0), l)]
    /\ call' = NoCall
    /\ UNCHANGED <<topo, cycle, inflight, to_switch, to_npu, switch,
                   rx_calls, ncalls, ledger>>

\* One call of _hist.
HistCall ==
    /\ topo = "Stats"
    /\ \E bins \in 1 .. MaxBins :
          \E r \in {_hist(npus, bins)} :
             call' = [op |-> "_hist", bins |-> bins,
                      h |-> r.h, lo |-> r.lo, hi |-> r.hi]
    /\ UNCHANGED <<topo, npus, cycle, inflight, to_switch, to_npu, switch,
                   rx_calls, ncalls, ledger>>

SpecStats == InitStats /\ [][StatsRx \/ HistCall]_vars

\* The mesh with several links per node pair, so that one output queue can
\* be popped more than once in a cycle.
BurstLinks == 2

BurstFMStep ==
    /\ topo = "FM16"
    /\ cycle < MaxCycleFM
    /\ \E draws \in AllDraws :
        /\ Created + NewPkts(draws) <= MaxPktsFM
        /\ \E r \in {FM16System_stepOf(
                        [npus |-> npus, cycle |-> cycle,
                         inflight |-> inflight], draws, BurstLinks)} :
               /\ npus' = r.npus
               /\ inflight' = r.inflight
               /\ cycle' = r.cycle
               /\ rx_calls' = r.rx_calls
               /\ ledger' = [ledger EXCEPT
                                !.injected = @ \cup r.admitted,
                                !.delivered = @ \o RxPackets(r.rx_calls)]
    /\ UNCHANGED <<topo, to_switch, to_npu, switch, call, ncalls>>

SpecBurst == InitFM /\ [][BurstFMStep]_vars

SpecFM == InitFM /\ [][FMStep]_vars

SpecSW == InitSW /\ [][SWStep]_vars

SpecSwitch == InitSwitch /\ [][EnqueueCall \/ ScheduleCall]_vars

\* The stand-alone switch with its two read-only queries (lines 235-252)
\* called between enqueue and schedule calls.
OccupancyCall ==
    /\ topo = "SW5809s"
    /\ call' = [op |-> "occupancy", ret |-> occupancy(switch)]
    /\ UNCHANGED <<topo, npus, cycle, inflight, to_switch, to_npu, switch,
                   rx_calls, ncalls, ledger>>

LoadImbalanceCall ==
    /\ topo = "SW5809s"
    /\ call' = [op |-> "port_load_imbalance",
                ret |-> port_load_imbalance(switch)]
    /\ UNCHANGED <<topo, npus, cycle, inflight, to_switch, to_npu, switch,
                   rx_calls, ncalls, ledger>>

SpecSwitchStats ==
    InitSwitch /\ [][EnqueueCall \/ ScheduleCall \/ OccupancyCall
                        \/ LoadImbalanceCall]_vars

\* NPUNode.__init__, one node on its own (no system around it).
InitNode ==
    /\ topo = "NPUNode"
    /\ \E n \in Nodes : npus = [i \in {n} |-> NPUNode(n, N_NPUS)]
    /\ cycle = 0
    /\ inflight = <<>>
    /\ to_switch = <<>>
    /\ to_npu = <<>>
    /\ switch = [ecmp_mode |-> "none"]
    /\ rx_calls = <<>>
    /\ call = NoCall
    /\ ncalls = 0
    /\ ledger = NoLedger

\* One call of NPUNode.inject (INJECT_BATCH attempts) with the caller's
\* cycle.
InjectCall ==
    /\ topo = "NPUNode"
    /\ \E i \in DOMAIN npus :
        \E ds \in DrawSeqs(i) :
            /\ npus[i].seq
                  + Cardinality({k \in 1 .. INJECT_BATCH : ds[k].inject})
                   <= MaxNodePkts
            /\ npus' = [npus EXCEPT ![i] = inject(npus[i], cycle, ds)]
            /\ call' = [op |-> "inject", node |-> i, draws |-> ds,
                        cycle |-> cycle]
    /\ UNCHANGED <<topo, cycle, inflight, to_switch, to_npu, switch,
                   rx_calls, ncalls, ledger>>

\* One call of NPUNode.tx.
TxCall ==
    /\ topo = "NPUNode"
    /\ \E i \in DOMAIN npus, port \in 0 .. (N_NPUS - 1) :
        \E r \in {tx(npus[i], port)} :
            /\ npus' = [npus EXCEPT ![i] = r.npu]
            /\ call' = [op |-> "tx", node |-> i, port |-> port,
                        pkt |-> r.pkt]
    /\ UNCHANGED <<topo, cycle, inflight, to_switch, to_npu, switch,
                   rx_calls, ncalls, ledger>>

\* One call of NPUNode.rx with a packet some other node injected earlier.
RxCall ==
    /\ topo = "NPUNode"
    /\ \E i \in DOMAIN npus, s \in Nodes, c \in 0 .. cycle :
        /\ npus[i].pkts_delivered < MaxRx
        /\ npus' = [npus EXCEPT ![i] = rx(npus[i], Packet(s, i, 0, c), cycle)]
        /\ call' = [op |-> "rx", node |-> i, pkt |-> Packet(s, i, 0, c),
                    cycle |-> cycle]
    /\ UNCHANGED <<topo, cycle, inflight, to_switch, to_npu, switch,
                   rx_calls, ncalls, ledger>>

\* The caller's clock moves on between calls.
NodeTick ==
    /\ topo = "NPUNode"
    /\ cycle < MaxNodeCycle
    /\ cycle' = cycle + 1
    /\ UNCHANGED <<topo, npus, inflight, to_switch, to_npu, switch,
                   rx_calls, call, ncalls, ledger>>

SpecNode == InitNode /\ [][InjectCall \/ TxCall \/ RxCall \/ NodeTick]_vars

\* A single source flooding one destination: every injection attempt of
\* node FloodSource creates a packet for node FloodDst, no other node
\* injects.
FloodSource == 0

FloodDst == 1

FloodDraws ==
    [i \in Nodes |->
        [k \in 1 .. INJECT_BATCH |->
            IF i = FloodSource THEN [inject |-> TRUE, dst |-> FloodDst]
            ELSE [inject |-> FALSE, dst |-> i]]]

\* SW16System.step under the flood.
FloodStep ==
    /\ topo = "SW16"
    /\ cycle < FloodCycles
    /\ \E r \in {SW16System_step(
                    [npus |-> npus, cycle |-> cycle, switch |-> switch,
                     to_switch |-> to_switch, to_npu |-> to_npu],
                    FloodDraws)} :
           /\ npus' = r.npus
           /\ switch' = r.switch
           /\ to_switch' = r.to_switch
           /\ to_npu' = r.to_npu
           /\ cycle' = r.cycle
           /\ rx_calls' = r.rx_calls
           /\ call' = [op |-> "schedule", granted |-> r.granted]
           /\ ledger' = [ledger EXCEPT
                            !.injected = @ \cup r.admitted,
                            !.delivered = @ \o RxPackets(r.rx_calls),
                            !.dropped = @ \o DroppedPackets(r.enq_calls)]
    /\ UNCHANGED <<topo, inflight, ncalls>>

SpecFlood == InitSW /\ [][FloodStep]_vars

\* The runs in which enqueue counts are compared: direct calls on a
\* stand-alone switch, and the flood through SW16System.
SpecBalance ==
    (InitSwitch \/ InitSW) /\ [][EnqueueCall \/ ScheduleCall \/ FloodStep]_vars

Init == InitFM \/ InitSW

Next == FMStep \/ SWStep

Spec == Init /\ [][Next]_vars

\* ------------------------------------------------------------------------
\* Quantities the properties are stated in
\* ------------------------------------------------------------------------
TotalInjected == SumOver([i \in Nodes |-> npus[i].pkts_injected], Nodes)

TotalDelivered == SumOver([i \in Nodes |-> npus[i].pkts_delivered], Nodes)

\* Packets resident in the output queues of all nodes.
InOutFifos ==
    SumOver([i \in Nodes |->
                SumLen(npus[i].out_fifos, 0 .. (npus[i].n_ports - 1))],
            Nodes)

\* The latency values recorded so far by all nodes.
RecordedLatencies ==
    UNION {{npus[i].latencies[k] : k \in 1 .. Len(npus[i].latencies)} :
              i \in Nodes}

SwitchedFloor == 2 * SW_LINK_LATENCY + SW_XBAR_LATENCY

\* The last transition was a call of enqueue on the stand-alone switch.
EnqueueCalled == ncalls' = ncalls + 1 /\ call'.op = "enqueue"

\* The last transition was a call of schedule on the stand-alone switch.
ScheduleCalled == topo = "SW5809s" /\ call'.op = "schedule" /\ ncalls' = ncalls

\* Grants of the last schedule call that name egress port j / ingress port i.
GrantsOfEgress(c, j) == {k \in 1 .. Len(c.granted) : c.granted[k][2] = j}

GrantsOfIngress(c, i) == {k \in 1 .. Len(c.granted) : c.granted[k][1] = i}

\* Packets queued for egress port j over all ingress ports.
QueuedFor(sw, j) == SumOver([i \in Ports |-> Len(sw.voqs[i][j])], Ports)

\* ------------------------------------------------------------------------
\* C1  Switched conservation: at every step boundary of SW16System the
\* packets counted as injected equal the packets delivered, plus the
\* switch's pkts_dropped, plus the packets resident in the node output
\* queues, the node-to-switch delay list, the VOQ matrix and the
\* switch-to-node delay list.
\* ------------------------------------------------------------------------
C1_SwitchedConservation ==
    topo = "SW16" =>
        TotalInjected = TotalDelivered + switch.pkts_dropped + InOutFifos
                          + Len(to_switch) + occupancy(switch) + Len(to_npu)

C1_Witness ==
    /\ topo = "SW16"
    /\ switch.pkts_dropped > 0
    /\ TotalDelivered > 0
    /\ Len(to_switch) + occupancy(switch) + Len(to_npu) > 0

\* ------------------------------------------------------------------------
\* C2  Mesh conservation: at every step boundary of FM16System the packets
\* counted as injected equal the packets delivered plus the packets in the
\* node output queues plus the entries of the in-flight list; a packet
\* discarded at injection is not counted as injected.
\* ------------------------------------------------------------------------
C2_MeshConservation ==
    topo = "FM16" =>
        TotalInjected = TotalDelivered + InOutFifos + Len(inflight)

C2_Witness ==
    /\ topo = "FM16"
    /\ Created > TotalInjected
    /\ TotalDelivered > 0
    /\ Len(inflight) > 0

\* ------------------------------------------------------------------------
\* C3  No self-delivery: in both topologies every packet handed to rx has
\* src # dst and is handed to the node whose id is the packet's dst.
\* ------------------------------------------------------------------------
C3_NoSelfDelivery ==
    \A k \in 1 .. Len(rx_calls) :
        /\ rx_calls[k][2].src # rx_calls[k][2].dst
        /\ npus[rx_calls[k][1]].id = rx_calls[k][2].dst

C3_Witness ==
    /\ topo = "SW16"
    /\ \E a, b \in 1 .. Len(rx_calls) : rx_calls[a][1] # rx_calls[b][1]

\* ------------------------------------------------------------------------
\* C4  Switched latency floor: every latency a node of SW16System records
\* is at least 2 * SW_LINK_LATENCY + SW_XBAR_LATENCY.
\* ------------------------------------------------------------------------
C4_SwitchedLatencyFloor ==
    topo = "SW16" => \A l \in RecordedLatencies : l >= SwitchedFloor

C4_Witness ==
    /\ topo = "SW16"
    /\ SwitchedFloor \in RecordedLatencies
    /\ \E l \in RecordedLatencies : l > SwitchedFloor

\* ------------------------------------------------------------------------
\* C5  Mesh latency floor: every latency a node of FM16System records is at
\* least FM_LINK_LATENCY.
\* ------------------------------------------------------------------------
C5_MeshLatencyFloor ==
    topo = "FM16" => \A l \in RecordedLatencies : l >= FM_LINK_LATENCY

C5_Witness ==
    /\ topo = "FM16"
    /\ FM_LINK_LATENCY \in RecordedLatencies
    /\ \E l \in RecordedLatencies : l > FM_LINK_LATENCY

\* ------------------------------------------------------------------------
\* C6  Egress exclusivity: one call of schedule() removes from the VOQs of
\* each egress port, and returns, at most one packet; the list returned has
\* one entry per packet removed.
\* ------------------------------------------------------------------------
C6_EgressExclusivity ==
    [][ScheduleCalled =>
          /\ Len(call'.delivered) = Len(call'.granted)
          /\ \A j \in Ports :
                /\ Cardinality(GrantsOfEgress(call', j)) <= 1
                /\ QueuedFor(switch, j) - QueuedFor(switch', j)
                     = Cardinality(GrantsOfEgress(call', j))]_vars

\* A call that granted for an egress port and left a packet queued for it.
C6_Witness ==
    /\ topo = "SW5809s"
    /\ call.op = "schedule"
    /\ \E j \in Ports :
          /\ GrantsOfEgress(call, j) # {}
          /\ \E i \in Ports :
                /\ i \div SW_PORTS_PER_NPU # j \div SW_PORTS_PER_NPU
                /\ switch.voqs[i][j] # <<>>

\* ------------------------------------------------------------------------
\* C7  as claimed: in one call of schedule() each ingress port is the
\* source of at most one granted packet across all egress ports.
\* ------------------------------------------------------------------------
C7_AsClaimed ==
    (topo = "SW5809s" /\ call.op = "schedule") =>
        \A i \in Ports : Cardinality(GrantsOfIngress(call, i)) <= 1

\* ------------------------------------------------------------------------
\* C7  as amended: in one call of schedule() each ingress port is the
\* source of at most one granted packet per egress port (each VOQ loses at
\* most one packet, the one granted), and of none for the egress ports of
\* its own node; one ingress port can be granted by several egress ports of
\* other nodes in the same call.
\* ------------------------------------------------------------------------
C7_OnePerVoq ==
    [][ScheduleCalled =>
          \A i, j \in Ports :
             LET n == Cardinality({k \in GrantsOfIngress(call', i) :
                                      call'.granted[k][2] = j})
             IN  /\ n <= 1
                 /\ Len(switch.voqs[i][j]) - Len(switch'.voqs[i][j]) = n
                 /\ (i \div SW_PORTS_PER_NPU = j \div SW_PORTS_PER_NPU)
                        => n = 0]_vars

\* A call that granted two packets of the same ingress port while a VOQ
\* between two ports of one node held a packet.
C7_Witness ==
    /\ topo = "SW5809s"
    /\ call.op = "schedule"
    /\ \E i \in Ports : Cardinality(GrantsOfIngress(call, i)) >= 2
    /\ \E i, j \in Ports :
          /\ i \div SW_PORTS_PER_NPU = j \div SW_PORTS_PER_NPU
          /\ switch.voqs[i][j] # <<>>

\* ------------------------------------------------------------------------
\* C9  as claimed: enqueue rejects a packet whose dst is src_node or is not
\* a node id: the call fails and leaves every VOQ, both ECMP counters,
\* pkts_enqueued and port_enq_count as they were.
\* ------------------------------------------------------------------------
InvalidDst(src_npu, dst_npu) == dst_npu = src_npu \/ dst_npu \notin Nodes

C9_RejectsInvalidDst ==
    [][(EnqueueCalled /\ InvalidDst(call'.src_npu, call'.pkt.dst)) =>
          /\ call'.ret \in {"False", "IndexError"}
          /\ switch'.voqs = switch.voqs
          /\ switch'.ingress_rr = switch.ingress_rr
          /\ switch'.global_rr = switch.global_rr
          /\ switch'.pkts_enqueued = switch.pkts_enqueued
          /\ switch'.port_enq_count = switch.port_enq_count]_vars

\* ------------------------------------------------------------------------
\* C10  as claimed: when enqueue rejects a packet for its destination (dst
\* is src_node, or dst >= N_NPUS) the switch's drop counter goes up by one.
\* ------------------------------------------------------------------------
C10_InvalidDstCounted ==
    [][(EnqueueCalled /\ DstRejected(switch, call'.src_npu, call'.pkt.dst)) =>
          switch'.pkts_dropped = switch.pkts_dropped + 1]_vars

\* ------------------------------------------------------------------------
\* C11  Admission drop at the switch: for a packet with a valid destination,
\* when the selected VOQ[ingress][egress] already holds VOQ_DEPTH packets
\* enqueue returns failure, increments pkts_dropped by exactly one and
\* leaves every VOQ, pkts_enqueued and port_enq_count unchanged; when it
\* holds fewer, the packet is appended at the tail of that VOQ,
\* pkts_enqueued and port_enq_count[egress] each go up by one and
\* pkts_dropped is unchanged.
\* ------------------------------------------------------------------------
\* The ingress port of an enqueue call and the egress port its ECMP step
\* selects in switch sw, for a destination that is a node id.
IngressOf(c) ==
    c.src_npu * SW_PORTS_PER_NPU + (c.in_port_hint % SW_PORTS_PER_NPU)

EgressOf(sw, c) ==
    c.pkt.dst * SW_PORTS_PER_NPU
        + (IF sw.ecmp_mode = "independent"
           THEN sw.ingress_rr[IngressOf(c)][c.pkt.dst]
           ELSE sw.global_rr[c.pkt.dst])

C11_AdmissionDrop ==
    [][(EnqueueCalled /\ ~InvalidDst(call'.src_npu, call'.pkt.dst)) =>
          LET i == IngressOf(call')
              j == EgressOf(switch, call')
          IN  IF Len(switch.voqs[i][j]) >= VOQ_DEPTH
              THEN /\ call'.ret = "False"
                   /\ switch'.pkts_dropped = switch.pkts_dropped + 1
                   /\ switch'.voqs = switch.voqs
                   /\ switch'.pkts_enqueued = switch.pkts_enqueued
                   /\ switch'.port_enq_count = switch.port_enq_count
              ELSE /\ call'.ret = "True"
                   /\ switch'.voqs =
                        [switch.voqs EXCEPT ![i][j] = Append(@, call'.pkt)]
                   /\ switch'.pkts_enqueued = switch.pkts_enqueued + 1
                   /\ switch'.port_enq_count =
                        [switch.port_enq_count EXCEPT ![j] = @ + 1]
                   /\ switch'.pkts_dropped = switch.pkts_dropped]_vars

\* An enqueue call with a valid destination that was dropped for a full VOQ
\* after earlier calls were accepted.
C11_Witness ==
    /\ topo = "SW5809s"
    /\ call.op = "enqueue"
    /\ ~InvalidDst(call.src_npu, call.pkt.dst)
    /\ call.ret = "False"
    /\ switch.pkts_dropped = 1
    /\ switch.pkts_enqueued >= 1

\* ------------------------------------------------------------------------
\* C12  Admission drop at injection: when inject creates a packet whose
\* target output queue already holds FIFO_DEPTH packets the packet is
\* discarded, the queue is unchanged and pkts_injected is not incremented;
\* otherwise the packet is appended at the tail and pkts_injected goes up
\* by exactly one.  pkts_injected moves only with an append.  With room for
\* one packet, two packets aimed at the same queue in one cycle give one
\* appended and one discarded.
\* ------------------------------------------------------------------------
\* The last transition was a call of inject on a stand-alone node (the clock
\* tick is the only transition that leaves the call record alone).
InjectCalled == topo = "NPUNode" /\ call'.op = "inject" /\ cycle' = cycle

\* The packets one inject call creates, in order: the r-th injecting draw
\* gets sequence number seq + r - 1.
CreatedBy(n, c) ==
    LET K == {k \in 1 .. INJECT_BATCH : c.draws[k].inject}
        nth(r) == CHOOSE k \in K : Cardinality({m \in K : m < k}) = r - 1
    IN  [r \in 1 .. Cardinality(K) |->
            [src |-> n.id, dst |-> c.draws[nth(r)].dst,
             seq |-> n.seq + r - 1, inject_cycle |-> c.cycle]]

Min(a, b) == IF a < b THEN a ELSE b

C12_InjectionDrop ==
    [][InjectCalled =>
          LET i == call'.node
              made == CreatedBy(npus[i], call')
              for(p) == SelectSeq(made, LAMBDA x : x.dst % N_NPUS = p)
              room(p) == FIFO_DEPTH - Len(npus[i].out_fifos[p])
              taken(p) == Min(Len(for(p)), room(p))
          IN  /\ DOMAIN npus' = {i}
              /\ npus'[i].seq = npus[i].seq + Len(made)
              /\ \A p \in 0 .. (N_NPUS - 1) :
                    npus'[i].out_fifos[p] =
                        npus[i].out_fifos[p] \o SubSeq(for(p), 1, taken(p))
              /\ npus'[i].pkts_injected =
                    npus[i].pkts_injected
                        + SumOver([p \in 0 .. (N_NPUS - 1) |-> taken(p)],
                                  0 .. (N_NPUS - 1))]_vars

\* A call that created two packets for a queue with room for one: the first
\* (seq - 2) is the queue's last packet, the second was discarded.
C12_Witness ==
    /\ topo = "NPUNode"
    /\ call.op = "inject"
    /\ Cardinality({k \in 1 .. INJECT_BATCH : call.draws[k].inject}) = 2
    /\ LET n == npus[call.node]
           q == n.out_fifos[(CHOOSE d \in DstChoices(call.node) : TRUE)
                               % N_NPUS]
       IN  /\ Len(q) = FIFO_DEPTH
           /\ q[Len(q)].seq = n.seq - 2
           /\ q[Len(q)].inject_cycle = call.cycle
           /\ n.pkts_injected = FIFO_DEPTH
           /\ n.seq = FIFO_DEPTH + 1

\* ------------------------------------------------------------------------
\* C13  as claimed: configuration errors are rejected at construction, so a
\* system that can be stepped never has an ECMP mode other than
\* 'independent' or 'coordinated'.
\* ------------------------------------------------------------------------
ValidEcmpModes == {"independent", "coordinated"}

C13_ConfigRejected ==
    (topo = "SW16" /\ cycle > 0) => switch.ecmp_mode \in ValidEcmpModes

\* ------------------------------------------------------------------------
\* C14  Mesh delay line: a packet popped for a mesh link in the step of
\* cycle c is tagged c + FM_LINK_LATENCY + (length of its output queue
\* right after the pop) and is handed to rx in exactly the step whose cycle
\* equals the tag, never earlier and never later.  A single packet sent
\* from node 0 to node 1 at cycle 0 is delivered in the step of cycle
\* FM_LINK_LATENCY with latency FM_LINK_LATENCY.
\* ------------------------------------------------------------------------
FMStepped == topo = "FM16" /\ cycle' = cycle + 1

\* The entries one mesh step appends to the in-flight list.
SentInStep ==
    LET kept == Len(SelectSeq(inflight, LAMBDA e : e[1] > cycle))
    IN  SubSeq(inflight', kept + 1, Len(inflight'))

\* The only packet created so far was accepted by node 0.
SinglePacket ==
    topo = "FM16" /\ Created = 1 /\ npus[0].seq = 1 /\ TotalInjected = 1

C14_MeshDelayLine ==
    /\ [][FMStepped =>
            LET due == SelectSeq(inflight, LAMBDA e : e[1] = cycle)
                new == SentInStep
                SameQueue(a, b) ==
                    /\ new[a][2].src = new[b][2].src
                    /\ new[a][2].dst % N_NPUS = new[b][2].dst % N_NPUS
                PoppedAfter(k) ==
                    Cardinality({m \in (k + 1) .. Len(new) : SameQueue(k, m)})
            IN  /\ \A k \in 1 .. Len(inflight) : inflight[k][1] >= cycle
                /\ rx_calls' = [k \in 1 .. Len(due) |->
                                  <<due[k][2].dst, due[k][2], cycle>>]
                /\ inflight' =
                     SelectSeq(inflight, LAMBDA e : e[1] > cycle) \o new
                /\ \A k \in 1 .. Len(new) :
                     new[k][1] =
                        cycle + FM_LINK_LATENCY
                          + Len(npus'[new[k][2].src]
                                   .out_fifos[new[k][2].dst % N_NPUS])
                          + PoppedAfter(k)]_vars
    /\ [](SinglePacket =>
            /\ inflight # <<>> =>
                 /\ Len(inflight) = 1
                 /\ inflight[1][1] = inflight[1][2].inject_cycle
                                        + FM_LINK_LATENCY
                 /\ cycle <= inflight[1][1]
                 /\ npus[1].latencies = <<>>
            /\ inflight = <<>> => npus[1].latencies = <<FM_LINK_LATENCY>>
            /\ \A k \in 1 .. Len(rx_calls) :
                 rx_calls[k][2].inject_cycle = 0
                    => rx_calls[k][3] = FM_LINK_LATENCY)

\* A step that delivered both packets of a burst of two: the first was
\* tagged one cycle later because the second was queued behind it when it
\* was popped, the second was popped one cycle later from an empty queue.
C14_Witness ==
    /\ topo = "FM16"
    /\ \E a, b \in 1 .. Len(rx_calls) :
          /\ rx_calls[a][2].src = rx_calls[b][2].src
          /\ rx_calls[a][2].seq + 1 = rx_calls[b][2].seq
          /\ rx_calls[a][2].inject_cycle = rx_calls[b][2].inject_cycle
          /\ latency(rx_calls[a][2], rx_calls[a][3]) = FM_LINK_LATENCY + 1
          /\ latency(rx_calls[b][2], rx_calls[b][3]) = FM_LINK_LATENCY + 1

\* ------------------------------------------------------------------------
\* C15  as claimed: with 2 ports per node and 'independent' ECMP, after a
\* single source has flooded one destination for 1000 cycles the ratio of
\* the maximum to the average per-egress-port enqueue count of the
\* destination's egress ports is greater than 1.5.
\* ------------------------------------------------------------------------
\* max / avg of port_load_imbalance compared with the fraction a / b.
ImbalanceAbove(sw, a, b) ==
    LET li == port_load_imbalance(sw)
    IN  li.max[1] * li.avg[2] * b > a * li.avg[1] * li.max[2]

C15_FloodImbalance ==
    (topo = "SW16" /\ switch.ecmp_mode = "independent"
        /\ cycle = FloodCycles) => ImbalanceAbove(switch, 3, 2)

\* ------------------------------------------------------------------------
\* C16  Coordinated-mode fairness: in 'coordinated' ECMP mode (a) while a
\* single source floods one destination through SW16System (2 ports per
\* node) the max/avg per-egress enqueue ratio is within 1.0 +/- 10% at
\* every step boundary at which something has been enqueued, up to and
\* including the 1000th cycle, and (b) on any switch, for every destination
\* node to which no enqueue has been dropped for a full VOQ, the
\* port_enq_count values of that node's egress ports differ pairwise by at
\* most 1.
\* ------------------------------------------------------------------------
ImbalanceBelow(sw, a, b) ==
    LET li == port_load_imbalance(sw)
    IN  li.max[1] * li.avg[2] * b < a * li.avg[1] * li.max[2]

\* No enqueue for destination node d has been dropped for a full VOQ.
NoFullDropTo(d) ==
    \A k \in 1 .. Len(ledger.dropped) :
        PyIndex(ledger.dropped[k].dst, N_NPUS) # d

C16_CoordinatedFairness ==
    switch.ecmp_mode = "coordinated" =>
        /\ (topo = "SW16" /\ switch.pkts_enqueued > 0) =>
              /\ ~ImbalanceAbove(switch, 11, 10)
              /\ ~ImbalanceBelow(switch, 9, 10)
        /\ \A d \in Nodes :
              NoFullDropTo(d) =>
                 \A p, q \in npu_to_ports(switch, d) :
                    switch.port_enq_count[p] - switch.port_enq_count[q] <= 1

\* The end of the 1000-cycle flood in coordinated mode.
C16_Witness ==
    /\ topo = "SW16"
    /\ switch.ecmp_mode = "coordinated"
    /\ cycle = FloodCycles
    /\ switch.pkts_enqueued > FloodCycles
    /\ switch.pkts_dropped > 0

\* ------------------------------------------------------------------------
\* C17  Phase order within a step: each call of step() (either topology)
\* increases cycle by exactly 1 and runs its phases once each in the order
\* inject, transmit, delay-list processing (switched: enqueue, then
\* schedule), receive.  Injection before transmission: what a node sends in
\* a step is taken from its queues as they are after the step's injection,
\* so a packet injected in cycle c can leave in step c.  Enqueue before
\* schedule: the packets that arrive at the switch in a step are in the
\* VOQs when the step's schedule() runs, so one of them can be granted in
\* the same step (and is, when the switch was empty).
\* ------------------------------------------------------------------------
\* f[lo] \o f[lo + 1] \o ... \o f[hi]
RECURSIVE ConcatOver(_, _, _)
ConcatOver(f, lo, hi) ==
    IF lo > hi THEN <<>> ELSE f[lo] \o ConcatOver(f, lo + 1, hi)

\* A set of packets of one node as a sequence, in creation order.
BySeq(S) ==
    [r \in 1 .. Cardinality(S) |->
        CHOOSE x \in S : Cardinality({y \in S : y.seq < x.seq}) = r - 1]

\* Queue p of node i as the transmit phase of this step finds it: the
\* queue before the step followed by the packets this step's inject
\* admitted to it.
QueueAtTransmit(i, p) ==
    npus[i].out_fifos[p]
        \o BySeq({x \in ledger'.injected \ ledger.injected :
                     x.src = i /\ x.dst % N_NPUS = p})

Prefix(s, n) == SubSeq(s, 1, Min(Len(s), n))

\* The packets a switched / a mesh step must send, in order.
SwitchedSends(i) ==
    Prefix(ConcatOver([p \in 0 .. (N_NPUS - 1) |-> QueueAtTransmit(i, p)],
                      0, N_NPUS - 1),
           SW_LINKS_PER_NPU)

MeshSends(i) ==
    ConcatOver([p \in 0 .. (N_NPUS - 1) |->
                   Prefix(QueueAtTransmit(i, p), FM_LINKS_PER_PAIR)],
               0, N_NPUS - 1)

\* The entries one step appends to a delay list.
AppendedTo(old, new) ==
    SubSeq(new, Len(SelectSeq(old, LAMBDA e : e[1] > cycle)) + 1, Len(new))

VoqPackets(sw) ==
    UNION {{sw.voqs[i][j][k] : k \in 1 .. Len(sw.voqs[i][j])} :
              i \in Ports, j \in Ports}

C17_PhaseOrder ==
    [][(cycle' # cycle) =>
          /\ cycle' = cycle + 1
          /\ \A x \in ledger'.injected \ ledger.injected :
                x.inject_cycle = cycle
          /\ topo = "FM16" =>
                LET new == AppendedTo(inflight, inflight')
                IN  [k \in 1 .. Len(new) |-> new[k][2]]
                       = ConcatOver([i \in Nodes |-> MeshSends(i)],
                                    0, N_NPUS - 1)
          /\ topo = "SW16" =>
                LET new == AppendedTo(to_switch, to_switch')
                    arriving == SelectSeq(to_switch, LAMBDA e : e[1] <= cycle)
                    arrived == {arriving[k][4] : k \in 1 .. Len(arriving)}
                    grants == AppendedTo(to_npu, to_npu')
                    granted == {grants[k][2] : k \in 1 .. Len(grants)}
                    dropped == SubSeq(ledger'.dropped,
                                      Len(ledger.dropped) + 1,
                                      Len(ledger'.dropped))
                IN  /\ new = ConcatOver(
                              [i \in Nodes |->
                                  [k \in 1 .. Len(SwitchedSends(i)) |->
                                      <<cycle + SW_LINK_LATENCY, i,
                                        (k - 1) % SW_PORTS_PER_NPU,
                                        SwitchedSends(i)[k]>>]],
                              0, N_NPUS - 1)
                    /\ to_switch' =
                          SelectSeq(to_switch, LAMBDA e : e[1] > cycle) \o new
                    /\ \A k \in 1 .. Len(grants) :
                          /\ grants[k][1] =
                                cycle + SW_XBAR_LATENCY + SW_LINK_LATENCY
                          /\ grants[k][2] \in VoqPackets(switch) \cup arrived
                    /\ \A x \in arrived :
                          \/ x \in granted
                          \/ x \in VoqPackets(switch')
                          \/ \E k \in 1 .. Len(dropped) : dropped[k] = x
                    /\ (occupancy(switch) = 0 /\ arrived # {}) =>
                          granted \cap arrived # {}
                    /\ rx_calls' =
                          LET due == SelectSeq(to_npu,
                                               LAMBDA e : e[1] <= cycle)
                          IN  [k \in 1 .. Len(due) |->
                                 <<due[k][2].dst, due[k][2], cycle>>]]_vars

\* A switched step in which a packet injected in that step was sent to the
\* switch and a packet that arrived at the switch in that step was granted.
C17_Witness ==
    /\ topo = "SW16"
    /\ cycle > 0
    /\ \E k \in 1 .. Len(to_switch) :
          to_switch[k][4].inject_cycle = cycle - 1
    /\ \E k \in 1 .. Len(to_npu) :
          /\ to_npu[k][1] = (cycle - 1) + SW_XBAR_LATENCY + SW_LINK_LATENCY
          /\ to_npu[k][2].inject_cycle = (cycle - 1) - SW_LINK_LATENCY

\* ------------------------------------------------------------------------
\* C18  as claimed: in every reachable state of the switch VOQ[i][j] is
\* empty whenever ingress port i and egress port j belong to the same node.
\* ------------------------------------------------------------------------
C18_NoLoopbackVoq ==
    topo \in {"SW16", "SW5809s"} =>
        \A i, j \in Ports :
            (i \div SW_PORTS_PER_NPU = j \div SW_PORTS_PER_NPU)
                => switch.voqs[i][j] = <<>>

\* ------------------------------------------------------------------------
\* C19  Exclusive ownership and no retry: at every step boundary of either
\* system each packet counted as injected is in exactly one place: one node
\* output queue, one delay-list entry, one VOQ, delivered (exactly once), or
\* dropped.  No packet occurs twice over all these places, none was
\* delivered twice, and a dropped packet is in no queue and was not
\* delivered.
\* ------------------------------------------------------------------------
\* Every occurrence of a packet: in the node output queues, the delay
\* lists, the VOQs, and the records of deliveries and drops.
Occurrences ==
    LET inNodes ==
            ConcatOver([i \in Nodes |->
                           ConcatOver(npus[i].out_fifos, 0, N_NPUS - 1)],
                       0, N_NPUS - 1)
        inMesh == [k \in 1 .. Len(inflight) |-> inflight[k][2]]
        toSw == [k \in 1 .. Len(to_switch) |-> to_switch[k][4]]
        inVoqs ==
            IF topo = "SW16"
            THEN ConcatOver([i \in Ports |->
                                ConcatOver(switch.voqs[i], 0,
                                           SW_XBAR_PORTS - 1)],
                            0, SW_XBAR_PORTS - 1)
            ELSE <<>>
        toNpu == [k \in 1 .. Len(to_npu) |-> to_npu[k][2]]
    IN  inNodes \o inMesh \o toSw \o inVoqs \o toNpu
            \o ledger.delivered \o ledger.dropped

C19_ExclusiveOwnership ==
    LET occ == Occurrences
    IN  /\ \A a, b \in 1 .. Len(occ) : occ[a] = occ[b] => a = b
        /\ {occ[k] : k \in 1 .. Len(occ)} = ledger.injected
        /\ Cardinality(ledger.injected) = TotalInjected

\* A switched system in which packets have been delivered, one was dropped,
\* and others are under way.
C19_Witness ==
    /\ topo = "SW16"
    /\ ledger.delivered # <<>>
    /\ ledger.dropped # <<>>
    /\ Len(to_switch) + occupancy(switch) + Len(to_npu) > 0

\* ------------------------------------------------------------------------
\* C20  Round-robin grant rule: for each egress port j, schedule() grants
\* the head packet of VOQ[i][j] where i is the first ingress port, in cyclic
\* order starting at rr[j], that does not belong to j's destination node and
\* whose VOQ[i][j] is non-empty, and then sets rr[j] to (i + 1) mod P; the
\* granted packet is returned paired with destination node
\* j // ports_per_node.  When no such ingress port exists nothing is granted
\* for j.
\* ------------------------------------------------------------------------
\* The ingress ports egress port j can grant in switch sw.
Eligible(sw, j) ==
    {i \in Ports : /\ i \div SW_PORTS_PER_NPU # j \div SW_PORTS_PER_NPU
                   /\ sw.voqs[i][j] # <<>>}

\* Steps from rr[j] to ingress port i in cyclic order.
CyclicDistance(sw, j, i) == (i - sw.rr[j] + SW_XBAR_PORTS) % SW_XBAR_PORTS

C20_RoundRobinGrant ==
    [][ScheduleCalled =>
          \A j \in Ports :
             IF Eligible(switch, j) = {}
             THEN /\ GrantsOfEgress(call', j) = {}
                  /\ switch'.rr[j] = switch.rr[j]
             ELSE LET w == CHOOSE i \in Eligible(switch, j) :
                              \A o \in Eligible(switch, j) :
                                 CyclicDistance(switch, j, i)
                                    <= CyclicDistance(switch, j, o)
                  IN  /\ \E k \in 1 .. Len(call'.granted) :
                            /\ GrantsOfEgress(call', j) = {k}
                            /\ call'.granted[k] = <<w, j>>
                            /\ call'.delivered[k] =
                                 <<j \div SW_PORTS_PER_NPU,
                                   Head(switch.voqs[w][j])>>
                      /\ switch'.voqs[w][j] = Tail(switch.voqs[w][j])
                      /\ switch'.rr[j] = (w + 1) % SW_XBAR_PORTS]_vars

\* A grant for an egress port that had granted before, to an ingress port
\* below its round-robin pointer: the scan wrapped around past the last
\* port.
C20_Witness ==
    /\ topo = "SW5809s"
    /\ call.op = "schedule"
    /\ \E k \in 1 .. Len(call.granted) :
          LET i == call.granted[k][1]
              j == call.granted[k][2]
          IN  /\ i = 0
              /\ switch.rr[j] = 1
              /\ switch.port_enq_count[j] - QueuedFor(switch, j) >= 2

\* ------------------------------------------------------------------------
\* C21  Frame of schedule(): an egress port that grants nothing in a call
\* keeps its round-robin pointer and all its VOQs; for an egress port that
\* grants, only the granted VOQ changes; the ECMP counters, pkts_enqueued,
\* pkts_dropped, port_enq_count and the configuration are never changed,
\* and pkts_switched goes up by the number of grants.
\* ------------------------------------------------------------------------
C21_ScheduleFrame ==
    [][ScheduleCalled =>
          /\ \A j \in Ports :
                /\ GrantsOfEgress(call', j) = {} =>
                      /\ switch'.rr[j] = switch.rr[j]
                      /\ \A i \in Ports : switch'.voqs[i][j] = switch.voqs[i][j]
                /\ \A i \in Ports :
                      switch'.voqs[i][j] # switch.voqs[i][j] =>
                         \E k \in GrantsOfEgress(call', j) :
                            call'.granted[k][1] = i
          /\ switch'.ingress_rr = switch.ingress_rr
          /\ switch'.global_rr = switch.global_rr
          /\ switch'.pkts_enqueued = switch.pkts_enqueued
          /\ switch'.pkts_dropped = switch.pkts_dropped
          /\ switch'.port_enq_count = switch.port_enq_count
          /\ switch'.ecmp_mode = switch.ecmp_mode
          /\ switch'.n_ports = switch.n_ports
          /\ switch'.ports_per_npu = switch.ports_per_npu
          /\ switch'.pkts_switched = switch.pkts_switched + Len(call'.granted)
      ]_vars

\* A call in which one egress port granted while another, whose pointer had
\* been moved by an earlier grant, stayed idle.
C21_Witness ==
    /\ topo = "SW5809s"
    /\ call.op = "schedule"
    /\ \E j, idle \in Ports :
          /\ GrantsOfEgress(call, j) # {}
          /\ GrantsOfEgress(call, idle) = {}
          /\ switch.rr[idle] # 0

\* ------------------------------------------------------------------------
\* C22  Independent ECMP: in 'independent' mode an enqueue from ingress port
\* p to destination node d selects egress port
\* d * ports_per_node + ingress_rr[p][d] (value before the call): the packet
\* is appended to that VOQ of p, or dropped because that VOQ is full.  The
\* call sets ingress_rr[p][d] to (old + 1) mod ports_per_node and changes no
\* other ingress_rr entry and no global_rr entry.
\* ------------------------------------------------------------------------
\* The outcome of an enqueue call that selected egress port j for ingress
\* port i: appended to VOQ[i][j] and counted for j, or refused because
\* VOQ[i][j] was full.
SelectedEgress(i, j) ==
    \/ /\ call'.ret = "True"
       /\ switch'.voqs = [switch.voqs EXCEPT ![i][j] = Append(@, call'.pkt)]
       /\ switch'.port_enq_count =
             [switch.port_enq_count EXCEPT ![j] = @ + 1]
    \/ /\ call'.ret = "False"
       /\ Len(switch.voqs[i][j]) = VOQ_DEPTH
       /\ switch'.voqs = switch.voqs
       /\ switch'.port_enq_count = switch.port_enq_count

C22_IndependentEcmp ==
    [][(EnqueueCalled /\ switch.ecmp_mode = "independent"
           /\ ~InvalidDst(call'.src_npu, call'.pkt.dst)) =>
          LET p == IngressOf(call')
              d == call'.pkt.dst
          IN  /\ SelectedEgress(p, d * SW_PORTS_PER_NPU
                                      + switch.ingress_rr[p][d])
              /\ switch'.ingress_rr =
                    [switch.ingress_rr EXCEPT
                        ![p][d] = (@ + 1) % SW_PORTS_PER_NPU]
              /\ switch'.global_rr = switch.global_rr]_vars

\* Enqueues from one ingress port to one destination have visited both of
\* its egress ports and the counter is back at its start.
C22_Witness ==
    /\ topo = "SW5809s"
    /\ switch.ecmp_mode = "independent"
    /\ call.op = "enqueue"
    /\ ~InvalidDst(call.src_npu, call.pkt.dst)
    /\ LET p == IngressOf(call)
           d == call.pkt.dst
       IN  /\ switch.ingress_rr[p][d] = 0
           /\ \A e \in npu_to_ports(switch, d) : switch.voqs[p][e] # <<>>
           /\ switch.voqs[p][d * SW_PORTS_PER_NPU + SW_PORTS_PER_NPU - 1]
                 = <<call.pkt>>

\* ------------------------------------------------------------------------
\* C23  Coordinated ECMP: in 'coordinated' mode an enqueue for destination
\* node d selects egress port d * ports_per_node + global_rr[d] (value
\* before the call) whatever the ingress port: the packet is appended to
\* that VOQ of its ingress port, or dropped because that VOQ is full.  The
\* call sets global_rr[d] to (old + 1) mod ports_per_node and changes no
\* ingress_rr entry and no other global_rr entry.
\* ------------------------------------------------------------------------
C23_CoordinatedEcmp ==
    [][(EnqueueCalled /\ switch.ecmp_mode = "coordinated"
           /\ ~InvalidDst(call'.src_npu, call'.pkt.dst)) =>
          LET p == IngressOf(call')
              d == call'.pkt.dst
          IN  /\ SelectedEgress(p, d * SW_PORTS_PER_NPU + switch.global_rr[d])
              /\ switch'.global_rr =
                    [switch.global_rr EXCEPT
                        ![d] = (@ + 1) % SW_PORTS_PER_NPU]
              /\ switch'.ingress_rr = switch.ingress_rr]_vars

\* Enqueues to one destination from two different ingress ports have
\* visited both of its egress ports and the counter is back at its start.
C23_Witness ==
    /\ topo = "SW5809s"
    /\ switch.ecmp_mode = "coordinated"
    /\ call.op = "enqueue"
    /\ ~InvalidDst(call.src_npu, call.pkt.dst)
    /\ LET p == IngressOf(call)
           d == call.pkt.dst
       IN  /\ switch.global_rr[d] = 0
           /\ switch.voqs[p][d * SW_PORTS_PER_NPU + SW_PORTS_PER_NPU - 1]
                 = <<call.pkt>>
           /\ \E o \in Ports \ {p} :
                 switch.voqs[o][d * SW_PORTS_PER_NPU] # <<>>

\* ------------------------------------------------------------------------
\* C24  Egress-port order independence of schedule(): processing the egress
\* ports in any order within one call yields the same set of
\* (dest_node, packet) grants and the same resulting VOQ contents,
\* round-robin pointers and pkts_switched as the call made.
\* ------------------------------------------------------------------------
SeqToSet(s) == {s[k] : k \in 1 .. Len(s)}

C24_EgressOrderIndependence ==
    [][ScheduleCalled =>
          \A o \in EgressOrders :
             \A r \in {scheduleInOrder(
                         [sw |-> switch, delivered |-> <<>>,
                          granted |-> <<>>], o)} :
                 /\ SeqToSet(r.delivered) = SeqToSet(call'.delivered)
                 /\ Len(r.delivered) = Len(call'.delivered)
                 /\ r.sw.voqs = switch'.voqs
                 /\ r.sw.rr = switch'.rr
                 /\ r.sw.pkts_switched = switch'.pkts_switched]_vars

\* A call in which two egress ports granted packets of the same ingress
\* port while a third VOQ stayed non-empty.
C24_Witness ==
    /\ topo = "SW5809s"
    /\ call.op = "schedule"
    /\ \E i \in Ports : Cardinality(GrantsOfIngress(call, i)) >= 2
    /\ \E i, j \in Ports : switch.voqs[i][j] # <<>>

\* ------------------------------------------------------------------------
\* C25  Enqueue order of same-cycle packets.
\* ------------------------------------------------------------------------
\* The switch after the delivery loop of SW16System.step (lines 324-329)
\* has offered it a and then b.
EnqueuedInOrder(sw, a, b) ==
    enqueue(enqueue(sw, a[1], a[2], Packet(a[1], a[3], ncalls, 0)).sw,
            b[1], b[2], Packet(b[1], b[3], ncalls, 0)).sw

\* C25 as amended: for two packets that reach the switch in the same cycle
\* from different source nodes, either order of enqueueing them yields the
\* same switch state in 'independent' mode, and in 'coordinated' mode when
\* the two packets are for different destination nodes.
C25_OrderIndependentUnlessShared ==
    topo = "SW5809s" =>
        \A a, b \in Offers(switch) :
            (a[1] # b[1]
               /\ (switch.ecmp_mode = "independent" \/ a[3] # b[3]))
            => EnqueuedInOrder(switch, a, b) = EnqueuedInOrder(switch, b, a)

\* An 'independent' switch of three nodes that has a non-empty VOQ, where
\* two sources offer packets for the same destination and the switch
\* accepts one and drops the other.
C25_Witness ==
    /\ topo = "SW5809s"
    /\ switch.n_npus = 3
    /\ switch.ecmp_mode = "independent"
    /\ \E a, b \in Offers(switch) :
          /\ a[1] # b[1]
          /\ a[3] = b[3]
          /\ EnqueuedInOrder(switch, a, b).pkts_enqueued
                 = switch.pkts_enqueued + 1
          /\ EnqueuedInOrder(switch, a, b).pkts_dropped
                 = switch.pkts_dropped + 1

\* C25 as stated: for packets that reach the switch in the same cycle from
\* different source nodes, any relative order of enqueueing them yields
\* the same switch state (VOQ contents, ECMP counters, pkts_enqueued,
\* pkts_dropped, port_enq_count), in both ECMP modes.
C25_EnqueueOrderIndependence ==
    topo = "SW5809s" =>
        \A a, b \in Offers(switch) :
            a[1] # b[1]
            => EnqueuedInOrder(switch, a, b) = EnqueuedInOrder(switch, b, a)

\* ------------------------------------------------------------------------
\* C26  Switched two-hop timing: a packet transmitted at cycle c is offered
\* to enqueue in exactly the step of cycle c + SW_LINK_LATENCY, a packet
\* granted at cycle g is handed to rx in exactly the step of cycle
\* g + SW_XBAR_LATENCY + SW_LINK_LATENCY, and at a step boundary neither
\* delay list holds an entry whose arrival cycle is before the current
\* cycle.
\* ------------------------------------------------------------------------
SWStepped == topo = "SW16" /\ cycle' = cycle + 1

PacketsOf(list, k) == {list[n][k] : n \in 1 .. Len(list)}

C26_TwoHopTiming ==
    [][SWStepped =>
          LET sent == AppendedTo(to_switch, to_switch')
              due == SelectSeq(to_switch, LAMBDA e : e[1] = cycle)
              grants == AppendedTo(to_npu, to_npu')
              home == SelectSeq(to_npu, LAMBDA e : e[1] = cycle)
              refused == SubSeq(ledger'.dropped, Len(ledger.dropped) + 1,
                                Len(ledger'.dropped))
          IN  /\ \A k \in 1 .. Len(to_switch) : to_switch[k][1] >= cycle
              /\ \A k \in 1 .. Len(to_npu) : to_npu[k][1] >= cycle
              /\ \A k \in 1 .. Len(sent) :
                    sent[k][1] = cycle + SW_LINK_LATENCY
              /\ to_switch' =
                    SelectSeq(to_switch, LAMBDA e : e[1] > cycle) \o sent
              /\ PacketsOf(due, 4) \cup VoqPackets(switch)
                    = VoqPackets(switch') \cup PacketsOf(grants, 2)
                         \cup SeqToSet(refused)
              /\ \A k \in 1 .. Len(grants) :
                    grants[k][1] = cycle + SW_XBAR_LATENCY + SW_LINK_LATENCY
              /\ to_npu' =
                    SelectSeq(to_npu, LAMBDA e : e[1] > cycle) \o grants
              /\ rx_calls' = [k \in 1 .. Len(home) |->
                                 <<home[k][2].dst, home[k][2], cycle>>]]_vars

\* A packet that was injected and transmitted in one step, granted
\* SW_LINK_LATENCY steps later and received after the second hop.
C26_Witness ==
    /\ topo = "SW16"
    /\ \E k \in 1 .. Len(rx_calls) :
          /\ rx_calls[k][3] = cycle - 1
          /\ rx_calls[k][2].inject_cycle
                = rx_calls[k][3]
                    - (SW_LINK_LATENCY + SW_XBAR_LATENCY + SW_LINK_LATENCY)

\* ------------------------------------------------------------------------
\* C27  Mesh link limit: in one FM16System.step a node moves at most
\* FM_LINKS_PER_PAIR packets from any one output queue onto the in-flight
\* list; the packets beyond the limit stay in the queue, in order, and are
\* not dropped.
\* ------------------------------------------------------------------------
\* The packets this mesh step moved from queue p of node i to the in-flight
\* list, in the order they were appended.
MovedFrom(i, p) ==
    LET new == AppendedTo(inflight, inflight')
        mine == SelectSeq(new, LAMBDA e :
                    e[2].src = i /\ e[2].dst % N_NPUS = p)
    IN  [k \in 1 .. Len(mine) |-> mine[k][2]]

C27_MeshLinkLimit ==
    [][FMStepped =>
          \A i \in Nodes : \A p \in 0 .. (N_NPUS - 1) :
              /\ Len(MovedFrom(i, p)) <= FM_LINKS_PER_PAIR
              /\ QueueAtTransmit(i, p)
                    = MovedFrom(i, p) \o npus'[i].out_fifos[p]]_vars

\* A queue that held more than FM_LINKS_PER_PAIR packets at the transmit
\* phase of the last step: its first packet is in flight and the next one
\* is still at the head of the queue.
C27_Witness ==
    /\ topo = "FM16"
    /\ \E i \in Nodes : \E p \in 0 .. (N_NPUS - 1) :
          /\ Len(npus[i].out_fifos[p]) >= FM_LINKS_PER_PAIR + 1
          /\ \E k \in 1 .. Len(inflight) :
                /\ inflight[k][2].src = i
                /\ inflight[k][2].dst % N_NPUS = p
                /\ inflight[k][2].inject_cycle = cycle - 1
                /\ inflight[k][2].seq + 1 = Head(npus[i].out_fifos[p]).seq

\* ------------------------------------------------------------------------
\* C28  Switched ingress assignment: in one SW16System.step a node
\* transmits at most SW_LINKS_PER_NPU packets in total, and the k-th packet
\* it transmits in that cycle (k from 0) is presented to the switch on
\* ingress port src_node * ports_per_node + (k mod ports_per_node).
\* ------------------------------------------------------------------------
\* The entries this switched step appended to _to_switch for node i.
TransmittedBy(i) ==
    SelectSeq(AppendedTo(to_switch, to_switch'), LAMBDA e : e[2] = i)

\* The ingress port enqueue resolves for a _to_switch entry (line 189).
IngressOfEntry(sw, e) ==
    e[2] * sw.ports_per_npu + (e[3] % sw.ports_per_npu)

\* The switch took the packet of a due entry on ingress port row: it is in
\* a VOQ of that port, or was granted from that port in the same step, or
\* was dropped.
TakenOn(e, row) ==
    LET grants == AppendedTo(to_npu, to_npu')
        refused == SubSeq(ledger'.dropped, Len(ledger.dropped) + 1,
                          Len(ledger'.dropped))
    IN  \/ \E j \in Ports : \E n \in 1 .. Len(switch'.voqs[row][j]) :
              switch'.voqs[row][j][n] = e[4]
        \/ \E g \in 1 .. Len(grants) :
              grants[g][2] = e[4] /\ call'.granted[g][1] = row
        \/ e[4] \in SeqToSet(refused)

C28_IngressAssignment ==
    [][SWStepped =>
          /\ \A i \in Nodes :
                /\ Len(TransmittedBy(i)) <= SW_LINKS_PER_NPU
                /\ \A k \in 0 .. Len(TransmittedBy(i)) - 1 :
                      IngressOfEntry(switch, TransmittedBy(i)[k + 1])
                         = i * SW_PORTS_PER_NPU + (k % SW_PORTS_PER_NPU)
          /\ \A n \in 1 .. Len(to_switch) :
                to_switch[n][1] = cycle =>
                    TakenOn(to_switch[n],
                            IngressOfEntry(switch, to_switch[n]))]_vars

\* A node transmitted three packets in the step of cycle 0, one more than
\* it has ingress ports: the second one waits in a VOQ of the node's second
\* ingress port and the third one, taken on the first port again, has been
\* granted.
C28_Witness ==
    /\ topo = "SW16"
    /\ \E i \in Nodes :
          /\ \E j \in Ports :
                \E n \in 1 .. Len(switch.voqs[i * SW_PORTS_PER_NPU + 1][j]) :
                   LET x == switch.voqs[i * SW_PORTS_PER_NPU + 1][j][n]
                   IN  x.src = i /\ x.seq = 1 /\ x.inject_cycle = 0
          /\ \E g \in 1 .. Len(to_npu) :
                /\ to_npu[g][2].src = i
                /\ to_npu[g][2].seq = SW_PORTS_PER_NPU
                /\ to_npu[g][2].inject_cycle = 0
\* ------------------------------------------------------------------------
\* C29  Degenerate case ports_per_node = 1: every accepted packet from
\* source node s to destination d is placed in VOQ[s][d], and the
\* 'independent' and 'coordinated' modes produce identical VOQ contents,
\* grants and counters for every sequence of enqueue and schedule calls:
\* from the same state, the same call in the other mode returns the same
\* value and leaves the same state.
\* ------------------------------------------------------------------------
InMode(sw, m) == [sw EXCEPT !.ecmp_mode = m]

C29_DegeneratePorts ==
    [][(topo = "SW5809s" /\ switch.ports_per_npu = 1) =>
          /\ EnqueueCalled =>
                /\ call'.ret = "True" =>
                      switch'.voqs =
                         [switch.voqs EXCEPT
                             ![call'.src_npu][call'.pkt.dst] =
                                 Append(@, call'.pkt)]
                /\ \A m \in {"independent", "coordinated"} :
                      \A r \in {enqueue(InMode(switch, m), call'.src_npu,
                                        call'.in_port_hint, call'.pkt)} :
                          /\ r.ret = call'.ret
                          /\ r.sw = InMode(switch', m)
          /\ (call'.op = "schedule" /\ ncalls' = ncalls) =>
                \A m \in {"independent", "coordinated"} :
                    \A r \in {schedule(InMode(switch, m))} :
                        /\ r.delivered = call'.delivered
                        /\ r.sw = InMode(switch', m)]_vars

\* A switch with one port per node that has accepted a packet, granted it
\* and accepted another one.
C29_Witness ==
    /\ topo = "SW5809s"
    /\ switch.ports_per_npu = 1
    /\ call.op = "enqueue"
    /\ call.ret = "True"
    /\ switch.pkts_enqueued >= 2
    /\ switch.pkts_switched >= 1

\* ------------------------------------------------------------------------
\* C30  Queue bounds: in every reachable state each node output queue holds
\* at most FIFO_DEPTH packets and each VOQ at most VOQ_DEPTH packets, and
\* no operation evicts an already-queued packet to make room: a packet that
\* was queued before a step is after it still queued, or has been moved on
\* to the next delay list, and a packet that reached the switch in the step
\* is queued, granted or counted as dropped.
\* ------------------------------------------------------------------------
\* The packets a step appended to the delay list that follows the node
\* output queues.
SentOn ==
    IF topo = "FM16"
    THEN PacketsOf(AppendedTo(inflight, inflight'), 2)
    ELSE PacketsOf(AppendedTo(to_switch, to_switch'), 4)

\* A mesh node has refused a packet at inject for a full queue: the queue
\* holds FIFO_DEPTH packets less the FM_LINKS_PER_PAIR sent since.
FullFifoRefused ==
    /\ topo = "FM16"
    /\ \E i \in Nodes :
          /\ \E p \in 0 .. (N_NPUS - 1) :
                Len(npus[i].out_fifos[p]) = FIFO_DEPTH - FM_LINKS_PER_PAIR
          /\ npus[i].seq > npus[i].pkts_injected

\* The switch of the fabric has dropped a packet at enqueue for a full
\* VOQ, and an earlier packet of the same node and cycle has been granted.
FullVoqRefused ==
    /\ topo = "SW16"
    /\ \E d \in 1 .. Len(ledger.dropped) : \E g \in 1 .. Len(to_npu) :
          /\ to_npu[g][2].src = ledger.dropped[d].src
          /\ to_npu[g][2].inject_cycle = ledger.dropped[d].inject_cycle
          /\ to_npu[g][2].seq < ledger.dropped[d].seq

C30_QueueBounds ==
    /\ [](/\ \A i \in DOMAIN npus : \A p \in DOMAIN npus[i].out_fifos :
                Len(npus[i].out_fifos[p]) <= FIFO_DEPTH
          /\ topo = "SW16" =>
                \A i, j \in Ports : Len(switch.voqs[i][j]) <= VOQ_DEPTH)
    /\ [][(cycle' = cycle + 1) =>
            /\ \A i \in Nodes :
                  Queued(npus[i]) \subseteq Queued(npus'[i]) \cup SentOn
            /\ topo = "SW16" =>
                  VoqPackets(switch)
                        \cup PacketsOf(SelectSeq(to_switch,
                                            LAMBDA e : e[1] <= cycle), 4)
                     \subseteq
                        VoqPackets(switch')
                          \cup PacketsOf(AppendedTo(to_npu, to_npu'), 2)
                          \cup SeqToSet(ledger'.dropped)]_vars

\* Either queue has been found full by a new packet.
C30_Witness == FullFifoRefused \/ FullVoqRefused

\* ------------------------------------------------------------------------
\* C31  NPUNode.rx always succeeds, increments pkts_delivered by one and
\* appends exactly cycle - packet.inject_cycle to the node's latency list,
\* leaving the output queues and pkts_injected unchanged; hence
\* len(latencies) = pkts_delivered for every node in every reachable state.
\* ------------------------------------------------------------------------
\* The last transition was a call of rx on a stand-alone node.
RxCalled == topo = "NPUNode" /\ call'.op = "rx" /\ cycle' = cycle

C31_RxRecords ==
    /\ [](\A i \in DOMAIN npus :
             Len(npus[i].latencies) = npus[i].pkts_delivered)
    /\ [][RxCalled =>
            LET i == call'.node
            IN  /\ npus'[i].pkts_delivered = npus[i].pkts_delivered + 1
                /\ npus'[i].latencies =
                      Append(npus[i].latencies,
                             call'.cycle - call'.pkt.inject_cycle)
                /\ npus'[i].out_fifos = npus[i].out_fifos
                /\ npus'[i].pkts_injected = npus[i].pkts_injected
                /\ npus'[i].seq = npus[i].seq]_vars

\* A node that holds queued packets has received a packet one cycle after
\* that packet was injected.
C31_Witness ==
    /\ topo = "NPUNode"
    /\ call.op = "rx"
    /\ \E i \in DOMAIN npus :
          /\ npus[i].pkts_delivered = 1
          /\ npus[i].latencies = <<1>>
          /\ Queued(npus[i]) # {}

\* ------------------------------------------------------------------------
\* C32  Latency histogram.
\* ------------------------------------------------------------------------
\* The samples _hist was called on.
Samples == ConcatLatencies(npus, 0)

SampleValues == {Samples[k] : k \in 1 .. Len(Samples)}

\* The least q with q * b >= a, for a >= 0 and b > 0.
CeilDiv(a, b) ==
    CHOOSE q \in 0 .. a :
        q * b >= a /\ \A r \in 0 .. a : r * b >= a => q <= r

\* The histogram of the claim: bins bins of the given width over the
\* samples, the last bin taking what lies beyond it.
BinsOf(lo, width, bins) ==
    [b \in 1 .. bins |->
        Cardinality({k \in 1 .. Len(Samples) :
                        Min((Samples[k] - lo) \div width, bins - 1) = b - 1})]

\* C32 as amended: for a non-empty set of integer latencies with min lo and
\* max hi > lo, _hist returns exactly `bins` bins of width
\* ceil((hi - lo)/bins), each sample l is counted once in bin
\* floor((l - lo)/width) capped at the last bin, and the bin counts sum to
\* the number of samples; when all samples are equal (lo = hi) it returns a
\* single bin that holds the number of samples.
C32_HistogramUnlessFlat ==
    (topo = "Stats" /\ call.op = "_hist" /\ Samples # <<>>) =>
        LET lo == SetMin(SampleValues)
            hi == SetMax(SampleValues)
        IN  /\ call.lo = lo
            /\ call.hi = hi
            /\ SumOver(call.h, DOMAIN call.h) = Len(Samples)
            /\ IF lo = hi THEN call.h = <<Len(Samples)>>
               ELSE call.h = BinsOf(lo, CeilDiv(hi - lo, call.bins), call.bins)

\* A call with bins wider than one in which a sample beyond the last bin
\* was counted in the last bin.
C32_Witness ==
    /\ topo = "Stats"
    /\ call.op = "_hist"
    /\ call.bins >= 2
    /\ call.hi > call.lo
    /\ CeilDiv(call.hi - call.lo, call.bins) >= 2
    /\ (call.hi - call.lo) \div CeilDiv(call.hi - call.lo, call.bins)
          = call.bins
    /\ call.h[call.bins] >= 1

\* C32 as stated: for a non-empty set of integer latencies with min lo and
\* max hi, _hist returns exactly `bins` bins of width ceil((hi - lo)/bins),
\* each sample l is counted once in bin floor((l - lo)/width) capped at the
\* last bin, and the bin counts sum to the number of samples.  (With
\* lo = hi the width is 0 and the bin of a sample is not defined; the
\* number of bins and the sum still are.)
C32_HistogramBins ==
    (topo = "Stats" /\ call.op = "_hist" /\ Samples # <<>>) =>
        LET lo == SetMin(SampleValues)
            hi == SetMax(SampleValues)
            width == CeilDiv(hi - lo, call.bins)
        IN  /\ Len(call.h) = call.bins
            /\ width > 0 => call.h = BinsOf(lo, width, call.bins)
            /\ SumOver(call.h, DOMAIN call.h) = Len(Samples)

\* ------------------------------------------------------------------------
\* C33  No starvation in the egress arbiter: a packet at the head of a
\* non-loopback VOQ[i][j] is granted within at most P - ports_per_node
\* consecutive schedule() calls, whatever is enqueued in the meantime.
\* Stated with the number of ingress ports the scan of egress j reaches
\* before ingress i: it is below P - ports_per_node, an enqueue call leaves
\* it and the head packet alone, and a schedule call either grants the head
\* packet or lowers it (each port ahead of i is served at most once).
\* ------------------------------------------------------------------------
\* Ingress port i may be granted by egress port j (line 225).
NonLoopback(i, j) == i \div SW_PORTS_PER_NPU # j \div SW_PORTS_PER_NPU

\* The ingress ports the scan of egress port j considers before ingress
\* port i.
Ahead(sw, j, i) ==
    {o \in Ports : /\ NonLoopback(o, j)
                   /\ CyclicDistance(sw, j, o) < CyclicDistance(sw, j, i)}

\* The head packets of the non-empty non-loopback VOQs, as <<i, j>>.
Waiting(sw) ==
    {v \in Ports \X Ports :
        NonLoopback(v[1], v[2]) /\ sw.voqs[v[1]][v[2]] # <<>>}

C33_NoStarvation ==
    /\ [](topo = "SW5809s" =>
             \A v \in Waiting(switch) :
                Cardinality(Ahead(switch, v[2], v[1])) + 1
                   <= SW_XBAR_PORTS - SW_PORTS_PER_NPU)
    /\ [][(topo = "SW5809s" /\ EnqueueCalled) =>
             \A v \in Waiting(switch) :
                /\ Head(switch'.voqs[v[1]][v[2]])
                      = Head(switch.voqs[v[1]][v[2]])
                /\ Ahead(switch', v[2], v[1]) = Ahead(switch, v[2], v[1])]_vars
    /\ [][ScheduleCalled =>
             \A v \in Waiting(switch) :
                \/ \E k \in 1 .. Len(call'.granted) :
                      /\ call'.granted[k] = v
                      /\ call'.delivered[k][2]
                            = Head(switch.voqs[v[1]][v[2]])
                \/ /\ v \in Waiting(switch')
                   /\ Head(switch'.voqs[v[1]][v[2]])
                         = Head(switch.voqs[v[1]][v[2]])
                   /\ Cardinality(Ahead(switch', v[2], v[1]))
                         < Cardinality(Ahead(switch, v[2], v[1]))]_vars

\* A schedule call passed over the head packet of a VOQ for another ingress
\* port of the same egress port, and the packet is next in the scan.
C33_Witness ==
    /\ topo = "SW5809s"
    /\ call.op = "schedule"
    /\ \E v \in Waiting(switch) :
          /\ \E k \in 1 .. Len(call.granted) :
                call.granted[k][2] = v[2] /\ call.granted[k][1] # v[1]
          /\ Ahead(switch, v[2], v[1]) = {}

\* ------------------------------------------------------------------------
\* C34  Eventual outcome: while step keeps being called, whatever is
\* injected meanwhile, every packet counted as injected is delivered, by an
\* rx call at its destination node, or (switched topology only) dropped by
\* the switch, and none stays in an output queue, a delay list or a VOQ for
\* ever: every packet in transit has a bounded number of steps left, and
\* every step either settles it or lowers that number.
\* ------------------------------------------------------------------------
\* The packets in a node output queue, a delay list or a VOQ of system st.
ResidentIn(st) ==
    UNION {Queued(st.npus[i]) : i \in Nodes}
      \cup PacketsOf(st.inflight, 2)
      \cup PacketsOf(st.to_switch, 4)
      \cup PacketsOf(st.to_npu, 2)
      \cup (IF topo = "SW16" THEN VoqPackets(st.switch) ELSE {})

\* The position of packet p in list q / in the k-th components of list q.
PosIn(q, p) == CHOOSE n \in 1 .. Len(q) : q[n] = p

EntryOf(list, k, p) == list[CHOOSE n \in 1 .. Len(list) : list[n][k] = p]

\* Steps a mesh packet needs at most from its pop to its rx call: the tag
\* is the pop cycle + FM_LINK_LATENCY + queue length after the pop (line
\* 275), and the queue held at most FIFO_DEPTH packets before it.
MeshFlight == FM_LINK_LATENCY + FIFO_DEPTH

\* Steps a granted packet needs to its rx call (line 335).
HomeFlight == SW_XBAR_LATENCY + SW_LINK_LATENCY

\* Steps a packet needs at most from its enqueue to its rx call: each
\* packet before it in its VOQ, and then itself, waits for at most
\* SW_XBAR_PORTS - SW_PORTS_PER_NPU schedule calls.
VoqFlight == HomeFlight + VOQ_DEPTH * (SW_XBAR_PORTS - SW_PORTS_PER_NPU)

SwitchFlight == VoqFlight + SW_LINK_LATENCY

\* The steps packet p, in transit in system st, has left at most.
StepsLeft(st, p) ==
    IF p \in PacketsOf(st.inflight, 2)
    THEN EntryOf(st.inflight, 2, p)[1] - st.cycle + 1
    ELSE IF p \in PacketsOf(st.to_npu, 2)
    THEN EntryOf(st.to_npu, 2, p)[1] - st.cycle + 1
    ELSE IF p \in PacketsOf(st.to_switch, 4)
    THEN VoqFlight + EntryOf(st.to_switch, 4, p)[1] - st.cycle + 1
    ELSE IF topo = "SW16" /\ p \in VoqPackets(st.switch)
    THEN LET v == CHOOSE v \in Ports \X Ports :
                     p \in SeqToSet(st.switch.voqs[v[1]][v[2]])
         IN  HomeFlight
               + (PosIn(st.switch.voqs[v[1]][v[2]], p) - 1)
                    * (SW_XBAR_PORTS - SW_PORTS_PER_NPU)
               + Cardinality(Ahead(st.switch, v[2], v[1])) + 1
    ELSE LET port == p.dst % N_NPUS
             q == st.npus[p.src].out_fifos
         IN  IF topo = "FM16"
             THEN MeshFlight + CeilDiv(PosIn(q[port], p), FM_LINKS_PER_PAIR)
             ELSE SwitchFlight
                    + CeilDiv(SumOver([o \in 0 .. (N_NPUS - 1) |->
                                           IF o < port THEN Len(q[o]) ELSE 0],
                                      0 .. (N_NPUS - 1))
                                + PosIn(q[port], p), SW_LINKS_PER_NPU)

MaxStepsLeft ==
    IF topo = "FM16"
    THEN MeshFlight + CeilDiv(FIFO_DEPTH, FM_LINKS_PER_PAIR)
    ELSE SwitchFlight + CeilDiv(N_NPUS * FIFO_DEPTH, SW_LINKS_PER_NPU)

Now ==
    [npus |-> npus, cycle |-> cycle, inflight |-> inflight,
     to_switch |-> to_switch, to_npu |-> to_npu, switch |-> switch]

Settled(led, p) ==
    \/ p \in SeqToSet(led.delivered)
    \/ topo = "SW16" /\ p \in SeqToSet(led.dropped)

C34_EventualOutcome ==
    /\ [](/\ \A k \in 1 .. Len(rx_calls) :
                rx_calls[k][1] = rx_calls[k][2].dst
          /\ topo = "FM16" => ledger.dropped = <<>>
          /\ \A here \in {ResidentIn(Now)} :
                /\ \A p \in here : StepsLeft(Now, p) \in 1 .. MaxStepsLeft
                /\ \A p \in ledger.injected \ here : Settled(ledger, p)
                /\ \A p \in here :
                      p \in ledger.injected /\ ~Settled(ledger, p))
    /\ [][(cycle' = cycle + 1) =>
            \A after \in {ResidentIn(Now')} : \A p \in ResidentIn(Now) :
               IF p \in after
               THEN StepsLeft(Now', p) < StepsLeft(Now, p)
               ELSE Settled(ledger', p)]_vars

\* A packet that waited in an output queue behind another one has been
\* delivered while its node went on injecting: a later packet of the same
\* node for the same destination is still in transit.
C34_Witness ==
    /\ topo = "FM16"
    /\ \E p \in ledger.injected :
          /\ p \in SeqToSet(ledger.delivered)
          /\ \E q \in ledger.injected :
                /\ q.src = p.src /\ q.dst = p.dst /\ q.seq < p.seq
                /\ q.inject_cycle = p.inject_cycle
          /\ \E n \in ResidentIn(Now) :
                /\ n.src = p.src /\ n.dst = p.dst
                /\ n.inject_cycle > p.inject_cycle

\* ------------------------------------------------------------------------
\* C35  Switch bookkeeping: in every reachable switch state pkts_enqueued
\* equals pkts_switched plus occupancy(), and the port_enq_count values of
\* all egress ports sum to pkts_enqueued; a call of occupancy() or of
\* port_load_imbalance() leaves the switch as it was.
\* ------------------------------------------------------------------------
QueryCalled ==
    /\ topo = "SW5809s"
    /\ call'.op \in {"occupancy", "port_load_imbalance"}

C35_SwitchBookkeeping ==
    /\ [](topo = "SW5809s" =>
            /\ switch.pkts_enqueued = switch.pkts_switched + occupancy(switch)
            /\ SumOver(switch.port_enq_count, Ports) = switch.pkts_enqueued)
    /\ [][QueryCalled =>
            /\ switch' = switch
            /\ call'.op = "occupancy" =>
                  call'.ret = switch.pkts_enqueued - switch.pkts_switched]_vars

\* Both queries have been answered for a switch that has granted a packet,
\* holds another and has dropped a third.
C35_Witness ==
    /\ topo = "SW5809s"
    /\ call.op = "port_load_imbalance"
    /\ call.ret.max[1] > 0
    /\ switch.pkts_switched >= 1
    /\ occupancy(switch) >= 1
    /\ switch.pkts_dropped >= 1

\* ------------------------------------------------------------------------
\* C36  The ECMP counter enqueue consults (ingress_rr[p][d] in independent
\* mode, global_rr[d] otherwise) advances on every enqueue that passes the
\* destination check, also when the packet is then dropped because the
\* selected VOQ is full: such a drop changes the switch, and the next
\* packet for that destination is steered to the next egress port.
\* ------------------------------------------------------------------------
\* The counter an enqueue call c consults in switch sw (lines 194, 199).
Consulted(sw, c) ==
    LET d == PyIndex(c.pkt.dst, sw.n_npus)
    IN  IF sw.ecmp_mode = "independent"
        THEN sw.ingress_rr[IngressOf(c)][d]
        ELSE sw.global_rr[d]

PassedDstCheck ==
    /\ topo = "SW5809s"
    /\ EnqueueCalled
    /\ ~DstRejected(switch, call'.src_npu, call'.pkt.dst)
    /\ call'.ret # "IndexError"

C36_DropAdvancesEcmp ==
    [][PassedDstCheck =>
          LET i == IngressOf(call')
              d == PyIndex(call'.pkt.dst, switch.n_npus)
              next == (Consulted(switch, call') + 1) % SW_PORTS_PER_NPU
              j == d * SW_PORTS_PER_NPU + next
          IN  /\ Consulted(switch', call') = next
              /\ call'.ret = "False" =>
                    /\ switch' # switch
                    /\ switch'.pkts_dropped = switch.pkts_dropped + 1
                    /\ switch'.voqs = switch.voqs
                    /\ \A r \in {enqueue(switch', call'.src_npu,
                                         call'.in_port_hint, call'.pkt)} :
                          IF Len(switch'.voqs[i][j]) < VOQ_DEPTH
                          THEN /\ r.ret = "True"
                               /\ r.sw.voqs = [switch'.voqs EXCEPT ![i][j] =
                                                  Append(@, call'.pkt)]
                          ELSE /\ r.ret = "False"
                               /\ r.sw.voqs = switch'.voqs]_vars

\* An enqueue call has been refused for a full VOQ while the destination's
\* other egress port had room, and the counter it consulted has moved on.
C36_Witness ==
    /\ topo = "SW5809s"
    /\ call.op = "enqueue"
    /\ call.ret = "False"
    /\ call.pkt.dst \in Nodes \ {call.src_npu}
    /\ switch.pkts_dropped >= 1
    /\ \E j \in Ports :
          /\ j \div SW_PORTS_PER_NPU = call.pkt.dst
          /\ j % SW_PORTS_PER_NPU = Consulted(switch, call)
          /\ switch.voqs[IngressOf(call)][j] = <<>>

\* ------------------------------------------------------------------------
\* C37  In SW16System, with INJECT_BATCH <= SW_LINKS_PER_NPU and
\* INJECT_BATCH <= FIFO_DEPTH, every node output queue is empty at the end
\* of every step, so no packet is discarded at injection (every packet a
\* node creates is counted in pkts_injected) and the only drops are the
\* switch's VOQ-full drops.
\* ------------------------------------------------------------------------
BatchFits == INJECT_BATCH <= SW_LINKS_PER_NPU /\ INJECT_BATCH <= FIFO_DEPTH

C37_SwitchedQueuesDrain ==
    (topo = "SW16" /\ BatchFits) =>
        /\ \A i \in Nodes : \A p \in DOMAIN npus[i].out_fifos :
              npus[i].out_fifos[p] = <<>>
        /\ \A i \in Nodes : npus[i].pkts_injected = npus[i].seq
        /\ Cardinality(ledger.injected) = Created
        /\ Len(ledger.dropped) = switch.pkts_dropped
        /\ Created = switch.pkts_dropped + Len(ledger.delivered)
                       + Len(to_switch) + occupancy(switch) + Len(to_npu)

\* A node has created a full batch of packets in one cycle, all of them
\* left its queues, and the switch has dropped one of them for a full VOQ.
C37_Witness ==
    /\ topo = "SW16"
    /\ BatchFits
    /\ \E i \in Nodes : \E c \in 0 .. cycle :
          /\ Cardinality({p \in ledger.injected :
                             p.src = i /\ p.inject_cycle = c}) = INJECT_BATCH
          /\ Queued(npus[i]) = {}
          /\ \E k \in 1 .. Len(ledger.dropped) :
                ledger.dropped[k].src = i /\ ledger.dropped[k].inject_cycle = c

\* ------------------------------------------------------------------------
\* C38  Mesh burst reordering: packets popped from the same output queue in
\* the same cycle are tagged with strictly decreasing arrival cycles in pop
\* order (the queue depth after each pop is one less), each is handed to rx
\* in the step of its tag, so they are delivered in the reverse of their
\* queue order and delivery per (src, dst) pair is not in seq order.
\* ------------------------------------------------------------------------
C38_BurstReordering ==
    [][FMStepped =>
          LET new == SentInStep
              due == SelectSeq(inflight, LAMBDA e : e[1] = cycle)
              Burst(a, b) ==
                  /\ a < b
                  /\ new[a][2].src = new[b][2].src
                  /\ new[a][2].dst % N_NPUS = new[b][2].dst % N_NPUS
              Depth(k) ==
                  Len(npus'[new[k][2].src].out_fifos[new[k][2].dst % N_NPUS])
                    + Cardinality({m \in 1 .. Len(new) : Burst(k, m)})
          IN  /\ \A k \in 1 .. Len(new) :
                    new[k][1] = cycle + FM_LINK_LATENCY + Depth(k)
              /\ \A a, b \in 1 .. Len(new) :
                    Burst(a, b) =>
                       /\ new[a][2].seq < new[b][2].seq
                       /\ new[a][1] > new[b][1]
                       /\ new[b][1] > cycle
              /\ \A k \in 1 .. Len(inflight) : inflight[k][1] >= cycle
              /\ rx_calls' = [k \in 1 .. Len(due) |->
                                <<due[k][2].dst, due[k][2], cycle>>]]_vars

\* Two packets of one node for the same destination left their queue in the
\* same cycle, and the one with the higher seq was delivered first.
C38_Witness ==
    /\ topo = "FM16"
    /\ \E a, b \in 1 .. Len(ledger.delivered) :
          /\ a < b
          /\ ledger.delivered[a].src = ledger.delivered[b].src
          /\ ledger.delivered[a].dst = ledger.delivered[b].dst
          /\ ledger.delivered[a].inject_cycle
                = ledger.delivered[b].inject_cycle
          /\ ledger.delivered[a].seq = ledger.delivered[b].seq + 1
          /\ Len(npus[ledger.delivered[a].dst].latencies) >= 2

\* ------------------------------------------------------------------------
\* C39  A switch whose ecmp_mode is anything but "independent" (the
\* "ideal_rr" default of SW16System included) behaves exactly as one in
\* "coordinated" mode: from the same VOQs and counters, every enqueue and
\* schedule call returns the same value and grants and leaves the same
\* VOQs and counters as the call on the "coordinated" switch, so the two
\* agree after every sequence of calls.
\* ------------------------------------------------------------------------
C39_OtherModesCoordinated ==
    [][(topo = "SW5809s" /\ switch.ecmp_mode # "independent") =>
          /\ switch'.ecmp_mode = switch.ecmp_mode
          /\ EnqueueCalled =>
                \A r \in {enqueue(InMode(switch, "coordinated"),
                                  call'.src_npu, call'.in_port_hint,
                                  call'.pkt)} :
                   /\ r.ret = call'.ret
                   /\ r.sw = InMode(switch', "coordinated")
          /\ ScheduleCalled =>
                \A r \in {schedule(InMode(switch, "coordinated"))} :
                   /\ r.delivered = call'.delivered
                   /\ r.granted = call'.granted
                   /\ r.sw = InMode(switch', "coordinated")]_vars

\* A switch in "ideal_rr" mode has taken two packets for one destination
\* from two ingress ports and steered them to different egress ports.
C39_Witness ==
    /\ topo = "SW5809s"
    /\ switch.ecmp_mode = "ideal_rr"
    /\ call.op = "enqueue"
    /\ call.ret = "True"
    /\ switch.pkts_enqueued = 2
    /\ switch.pkts_switched = 0
    /\ \E i1, i2, j1, j2 \in Ports :
          /\ i1 # i2
          /\ j1 # j2
          /\ j1 \div SW_PORTS_PER_NPU = j2 \div SW_PORTS_PER_NPU
          /\ switch.voqs[i1][j1] # <<>>
          /\ switch.voqs[i2][j2] # <<>>
          /\ switch.ingress_rr[i1][j1 \div SW_PORTS_PER_NPU] = 0
          /\ switch.ingress_rr[i2][j1 \div SW_PORTS_PER_NPU] = 0

====
